---------------------------- MODULE Spec2Model ----------------------------
(***************************************************************************)
(* A model of the SWIPE-THEM core: the SwipeBuffer (windowing, grouping    *)
(* and single-flight refill, swipe-app/lib/engines/buffer.ts) and the      *)
(* action engine's undo table (swipe-app/lib/engines/actions.ts).          *)
(*                                                                         *)
(* JavaScript runs a handler to its next await without interleaving, so    *)
(* every action below is one such run: a synchronous method as a whole, an *)
(* async method from its call to its first await, and each continuation    *)
(* from the settlement it waits for to the next await or the return.       *)
(*                                                                         *)
(* An email is modelled by its id; its senderDomain is a function of the   *)
(* id.  A queue may hold the same id more than once (addItem and the       *)
(* refill batch do not prevent it).                                        *)
(***************************************************************************)
EXTENDS Integers, Sequences, FiniteSets, TLC

\* ------------------------------------------------------------------ bounds
NumIds == 7
MaxQueue == 6
\* the BufferConfig the model constructs its buffer with
WindowSize == 5
TriggerThreshold == 2

\* the action engine: tokens minted, calls in flight, the clock's last value
MaxTokens == 2
MaxCalls == 2
MaxTime == 30002

\* executeAction calls in a behaviour that runs the engines
MaxActions == 1

\* ------------------------------------------------------- program constants
\* buffer.ts:110, the size from which a same-domain set collapses
GroupThreshold == 5
\* actions.ts:65, PERFORMANCE.undoWindowMs
undoWindowMs == 30000

Ids == 1 .. NumIds
Domains == {"a", "b", "c"}

\* NormalizedEmail.senderDomain: ids 1..5 share one domain
senderDomain(id) == IF id <= 5 THEN "a" ELSE IF id = 6 THEN "b" ELSE "c"

Range(s) == {s[i] : i \in DOMAIN s}

Take(s, n) == SubSeq(s, 1, IF Len(s) < n THEN Len(s) ELSE n)

\* Array.prototype.filter on the queue: keep the ids outside `gone`
RECURSIVE FilterOut(_, _)
FilterOut(s, gone) ==
    IF s = <<>> THEN <<>>
    ELSE IF Head(s) \in gone THEN FilterOut(Tail(s), gone)
         ELSE <<Head(s)>> \o FilterOut(Tail(s), gone)

\* Array.prototype.filter on the window: drop the BufferItems whose
\* representative's id is in `gone`
RECURSIVE FilterWindow(_, _)
FilterWindow(w, gone) ==
    IF w = <<>> THEN <<>>
    ELSE IF Head(w).email \in gone THEN FilterWindow(Tail(w), gone)
         ELSE <<Head(w)>> \o FilterWindow(Tail(w), gone)

\* emails.filter(e => e.senderDomain === email.senderDomain && !processed.has(e.id))
RECURSIVE SameDomain(_, _, _)
SameDomain(emails, dom, processed) ==
    IF emails = <<>> THEN <<>>
    ELSE IF senderDomain(Head(emails)) = dom /\ Head(emails) \notin processed
         THEN <<Head(emails)>> \o SameDomain(Tail(emails), dom, processed)
         ELSE SameDomain(Tail(emails), dom, processed)

Singleton(email) == [email |-> email, isBossField |-> FALSE, groupCount |-> 0]

Boss(email, n) == [email |-> email, isBossField |-> TRUE, groupCount |-> n]

\* the for loop of groupIntoBosses, from position i on
RECURSIVE GroupLoop(_, _, _, _)
GroupLoop(emails, i, processed, items) ==
    IF i > Len(emails) THEN items
    ELSE LET email == emails[i]
             sameDomain == SameDomain(emails, senderDomain(email), processed)
         IN  IF email \in processed
             THEN GroupLoop(emails, i + 1, processed, items)
             ELSE IF Len(sameDomain) >= GroupThreshold
                  THEN GroupLoop(emails, i + 1, processed \cup Range(sameDomain),
                                 Append(items, Boss(sameDomain[1], Len(sameDomain))))
                  ELSE GroupLoop(emails, i + 1, processed \cup {email},
                                 Append(items, Singleton(email)))

\* the loop with a collapsed set's first member alone marked processed
RECURSIVE GroupLoopMarkingOne(_, _, _, _)
GroupLoopMarkingOne(emails, i, processed, items) ==
    IF i > Len(emails) THEN items
    ELSE LET email == emails[i]
             sameDomain == SameDomain(emails, senderDomain(email), processed)
         IN  IF email \in processed
             THEN GroupLoopMarkingOne(emails, i + 1, processed, items)
             ELSE GroupLoopMarkingOne(emails, i + 1, processed \cup {email},
                      Append(items, IF Len(sameDomain) >= GroupThreshold
                                    THEN Boss(sameDomain[1], Len(sameDomain))
                                    ELSE Singleton(email)))

\* the loop collapsing a same-domain set only above the threshold
RECURSIVE GroupLoopAboveThreshold(_, _, _, _)
GroupLoopAboveThreshold(emails, i, processed, items) ==
    IF i > Len(emails) THEN items
    ELSE LET email == emails[i]
             sameDomain == SameDomain(emails, senderDomain(email), processed)
         IN  IF email \in processed
             THEN GroupLoopAboveThreshold(emails, i + 1, processed, items)
             ELSE IF Len(sameDomain) > GroupThreshold
                  THEN GroupLoopAboveThreshold(emails, i + 1,
                           processed \cup Range(sameDomain),
                           Append(items, Boss(sameDomain[1], Len(sameDomain))))
                  ELSE GroupLoopAboveThreshold(emails, i + 1, processed \cup {email},
                           Append(items, Singleton(email)))

groupIntoBossesAboveThreshold(emails) == GroupLoopAboveThreshold(emails, 1, {}, <<>>)

Reverse(s) == [i \in DOMAIN s |-> s[Len(s) + 1 - i]]

\* the grouping with its items in the opposite order
groupIntoBossesNewestFirst(emails) == Reverse(GroupLoop(emails, 1, {}, <<>>))

groupIntoBossesMarkingOne(emails) == GroupLoopMarkingOne(emails, 1, {}, <<>>)

groupIntoBosses(emails) == GroupLoop(emails, 1, {}, <<>>)

\* the window grouped from the whole queue, the slice forgotten
syncWindowUnsliced(q) == groupIntoBosses(q)

\* syncWindow: the window the queue q gives
syncWindow(q) == groupIntoBosses(Take(q, WindowSize))

\* the window grouped from the whole queue by a buffer of any configuration
syncWindowWithUnsliced(q, windowSize) == groupIntoBosses(q)

\* syncWindow of a buffer constructed with config.windowSize = windowSize
syncWindowWith(q, windowSize) == groupIntoBosses(Take(q, windowSize))

\* the condition with the in-flight flag not consulted
shouldRefillIgnoringFlight(w, fetching) == Len(w) <= TriggerThreshold

\* the condition with the threshold itself excluded
shouldRefillBelow(w, fetching) == Len(w) < TriggerThreshold /\ ~fetching

\* the condition under which a consume call issues a refill
shouldRefill(w, fetching) == Len(w) <= TriggerThreshold /\ ~fetching

\* the batch appended with its duplicates
refillAppendAll(q, newItems) == q \o newItems

\* newItems.filter(n => !fullQueue.some(e => e.id === n.id)), appended
refillAppend(q, newItems) == q \o FilterOut(newItems, Range(q))

\* --------------------------------------------------------------- inputs
\* the queues a buffer is constructed from
InitialQueues ==
    { <<>>, <<1, 2, 3, 4, 5, 6>>, <<6, 1, 2, 3, 7, 4>>, <<1, 6, 7>> }

\* what the refill callback may resolve with
RefillBatches ==
    { <<>>, <<6>>, <<4, 5>>, <<5, 5>>, <<7, 1>> }

\* the arguments of consumeBatch
BatchArgs == { {}, {1, 2}, {1, 6}, {6, 7} }

\* the emails addItem is called with
AddArgs == {1, 6}

\* the positions addItem is called with: the default, as useSwipeBuffer.undo
\* calls it
AddIndexes == {0}

\* the orders in which GroupThreshold emails of domain "c" and one fewer of
\* domain "a" can stand in a queue
DomainPatterns ==
    {p \in [1 .. 2 * GroupThreshold - 1 -> {"a", "c"}] :
        Cardinality({i \in DOMAIN p : p[i] = "c"}) = GroupThreshold}

\* the queue of distinct ids that stands in the order p: ids 1.. for "a",
\* ids 7.. for "c"
PatternQueue(p) ==
    [i \in DOMAIN p |->
        IF p[i] = "c" THEN 6 + Cardinality({j \in 1 .. i : p[j] = "c"})
        ELSE Cardinality({j \in 1 .. i : p[j] = "a"})]

\* twelve emails of one domain
TwelveOfOneDomain == [i \in 1 .. 12 |-> 6 + i]

\* the arrays a buffer is constructed from anew; two of them hold an id twice
ConstructQueues ==
    {PatternQueue(p) : p \in DomainPatterns}
        \cup InitialQueues
        \cup {TwelveOfOneDomain, <<6, 6, 7>>, <<1, 1, 2, 3, 4>>}

\* the config.windowSize a buffer is constructed with anew
ConstructWindowSizes == {GroupThreshold, 2 * GroupThreshold - 1, 10}

VARIABLES
    fullQueue,      \* SwipeBuffer.fullQueue
    activeWindow,   \* SwipeBuffer.activeWindow
    isFetching,     \* SwipeBuffer.isFetching
    call,           \* the consume call that issued the last refill:
                    \*   none | suspended | resuming | rejecting | resolved | rejected
    outstanding,    \* invocations of onRefillRequired not yet settled
    settled,        \* how the last invocation settled: none | resolved | rejected
    added,          \* the items the last refill appended
    skipped,        \* a consume call found the window low while this refill was in flight
    undoStore,      \* actions.ts undoStore: token -> UndoData or NoRecord
    now,            \* Date.now()
    nextToken,      \* the token the next uuidv4() returns
    trashed,        \* the provider ids the provider holds in the trash
    pendingExec,    \* executeAction calls awaiting their provider call
    pendingUndo,    \* undoAction calls awaiting their provider call
    lastResult,     \* what the call that returned last returned
    origin,         \* token -> the email executeAction minted it for
    reversed,       \* the tokens an undoAction returned success for
    run,            \* the call of executeUnsubscribe, blockSender or nukeDomain
                    \*   in progress, or the last one
    calls,          \* the capabilities and requests that call has invoked
    detection       \* the last batchDetectNewsletters call: its arguments and
                    \*   the Map it returned

bufferVars ==
    <<fullQueue, activeWindow, isFetching, call, outstanding, settled, added, skipped>>

actionVars ==
    <<undoStore, now, nextToken, trashed, pendingExec, pendingUndo, lastResult,
      origin, reversed>>

engineVars == <<run, calls, detection>>

vars == <<bufferVars, actionVars, engineVars>>

\* no continuation is about to run: a new call can be made
Callable == call \in {"none", "suspended", "resolved", "rejected"}

\* addItem with the window left as it was
addItemWithoutSync(email, index) ==
    /\ Callable
    /\ Len(fullQueue) < MaxQueue
    /\ index \in 0 .. Len(fullQueue)
    /\ fullQueue' = SubSeq(fullQueue, 1, index) \o <<email>>
                        \o SubSeq(fullQueue, index + 1, Len(fullQueue))
    /\ UNCHANGED <<activeWindow, isFetching, call, outstanding, settled, added, skipped>>
    /\ UNCHANGED actionVars
    /\ UNCHANGED engineVars

\* addItem invoking the refill callback when the window it leaves is low
addItemRefilling(email, index) ==
    /\ Callable
    /\ Len(fullQueue) < MaxQueue
    /\ index \in 0 .. Len(fullQueue)
    /\ fullQueue' = SubSeq(fullQueue, 1, index) \o <<email>>
                        \o SubSeq(fullQueue, index + 1, Len(fullQueue))
    /\ activeWindow' = syncWindow(fullQueue')
    /\ IF shouldRefill(activeWindow', isFetching)
       THEN /\ isFetching' = TRUE
            /\ outstanding' = outstanding + 1
            /\ call' = "suspended"
            /\ settled' = "none"
            /\ added' = <<>>
            /\ skipped' = FALSE
       ELSE UNCHANGED <<isFetching, call, outstanding, settled, added, skipped>>
    /\ UNCHANGED actionVars
    /\ UNCHANGED engineVars

\* addItem(email, index): splice, then syncWindow
addItem(email, index) ==
    /\ Callable
    /\ Len(fullQueue) < MaxQueue
    /\ index \in 0 .. Len(fullQueue)
    /\ fullQueue' = SubSeq(fullQueue, 1, index) \o <<email>>
                        \o SubSeq(fullQueue, index + 1, Len(fullQueue))
    /\ activeWindow' = syncWindow(fullQueue')
    /\ UNCHANGED <<isFetching, call, outstanding, settled, added, skipped>>
    /\ UNCHANGED actionVars
    /\ UNCHANGED engineVars

\* consume with the refill issued and not awaited: the call returns at once
consumeWithoutAwait(ids) ==
    LET w == FilterWindow(activeWindow, ids)
        q == FilterOut(fullQueue, ids)
    IN  /\ Callable
        /\ fullQueue' = q
        /\ activeWindow' = syncWindow(q)
        /\ IF shouldRefill(w, isFetching)
           THEN /\ isFetching' = TRUE
                /\ outstanding' = outstanding + 1
                /\ call' = "resolved"
                /\ settled' = "none"
                /\ added' = <<>>
                /\ skipped' = FALSE
           ELSE /\ skipped' = (skipped \/ (isFetching /\ Len(w) <= TriggerThreshold))
                /\ UNCHANGED <<isFetching, outstanding, call, settled, added>>
        /\ UNCHANGED actionVars
        /\ UNCHANGED engineVars

\* the body shared by consumeItem and consumeBatch, for the ids removed
consume(ids) ==
    LET w == FilterWindow(activeWindow, ids)
        q == FilterOut(fullQueue, ids)
    IN  /\ Callable
        /\ fullQueue' = q
        /\ IF shouldRefill(w, isFetching)
           THEN \* refill() up to `await this.onRefillRequired()`
                /\ activeWindow' = w
                /\ isFetching' = TRUE
                /\ outstanding' = outstanding + 1
                /\ call' = "suspended"
                /\ settled' = "none"
                /\ added' = <<>>
                /\ skipped' = FALSE
           ELSE /\ activeWindow' = syncWindow(q)
                /\ skipped' = (skipped \/ (isFetching /\ Len(w) <= TriggerThreshold))
                /\ UNCHANGED <<isFetching, outstanding, call, settled, added>>
        /\ UNCHANGED actionVars
        /\ UNCHANGED engineVars

\* consumeItem removing the whole same-domain group of the id
consumeItemOfGroup(id) == consume({e \in Ids : senderDomain(e) = senderDomain(id)})

consumeItem(id) == consume({id})

consumeBatch(ids) == consume(ids)

\* nukeDomain with the window left as it was
nukeDomainWithoutSync(domain) ==
    /\ Callable
    /\ fullQueue' = FilterOut(fullQueue, {e \in Ids : senderDomain(e) = domain})
    /\ UNCHANGED <<activeWindow, isFetching, call, outstanding, settled, added, skipped>>
    /\ UNCHANGED actionVars
    /\ UNCHANGED engineVars

\* nukeDomain filtering the windowed slice alone
nukeDomainWithinWindow(domain) ==
    /\ Callable
    /\ fullQueue' = FilterOut(Take(fullQueue, WindowSize),
                              {e \in Ids : senderDomain(e) = domain})
                        \o SubSeq(fullQueue, WindowSize + 1, Len(fullQueue))
    /\ activeWindow' = syncWindow(fullQueue')
    /\ UNCHANGED <<isFetching, call, outstanding, settled, added, skipped>>
    /\ UNCHANGED actionVars
    /\ UNCHANGED engineVars

\* nukeDomain(domain): filter, then syncWindow
nukeDomain(domain) ==
    /\ Callable
    /\ fullQueue' = FilterOut(fullQueue, {e \in Ids : senderDomain(e) = domain})
    /\ activeWindow' = syncWindow(fullQueue')
    /\ UNCHANGED <<isFetching, call, outstanding, settled, added, skipped>>
    /\ UNCHANGED actionVars
    /\ UNCHANGED engineVars

\* the resolution with no finally block: the flag stays set
refillResolvedFlagKept(newItems) ==
    /\ call = "suspended"
    /\ outstanding > 0
    /\ Len(refillAppend(fullQueue, newItems)) <= MaxQueue
    /\ fullQueue' = refillAppend(fullQueue, newItems)
    /\ added' = FilterOut(newItems, Range(fullQueue))
    /\ activeWindow' = syncWindow(fullQueue')
    /\ outstanding' = outstanding - 1
    /\ settled' = "resolved"
    /\ call' = "resuming"
    /\ skipped' = FALSE
    /\ UNCHANGED isFetching
    /\ UNCHANGED actionVars
    /\ UNCHANGED engineVars

\* the callback's promise resolves with newItems: the rest of refill's try
\* block and its finally
refillResolved(newItems) ==
    /\ call = "suspended"
    /\ outstanding > 0
    /\ Len(refillAppend(fullQueue, newItems)) <= MaxQueue
    /\ fullQueue' = refillAppend(fullQueue, newItems)
    /\ added' = FilterOut(newItems, Range(fullQueue))
    /\ isFetching' = FALSE
    /\ activeWindow' = syncWindow(fullQueue')
    /\ outstanding' = outstanding - 1
    /\ settled' = "resolved"
    /\ call' = "resuming"
    /\ skipped' = FALSE
    /\ UNCHANGED actionVars
    /\ UNCHANGED engineVars

\* the rejection with no finally block: the flag stays set
refillRejectedFlagKept ==
    /\ call = "suspended"
    /\ outstanding > 0
    /\ outstanding' = outstanding - 1
    /\ settled' = "rejected"
    /\ call' = "rejecting"
    /\ skipped' = FALSE
    /\ UNCHANGED <<fullQueue, activeWindow, isFetching, added>>
    /\ UNCHANGED actionVars
    /\ UNCHANGED engineVars

\* the callback's promise rejects: refill's finally, and the error goes on
refillRejected ==
    /\ call = "suspended"
    /\ outstanding > 0
    /\ isFetching' = FALSE
    /\ activeWindow' = syncWindow(fullQueue)
    /\ outstanding' = outstanding - 1
    /\ settled' = "rejected"
    /\ call' = "rejecting"
    /\ skipped' = FALSE
    /\ UNCHANGED <<fullQueue, added>>
    /\ UNCHANGED actionVars
    /\ UNCHANGED engineVars

\* the consume call after `await this.refill()` returned: syncWindow, return
consumeResumed ==
    /\ call = "resuming"
    /\ activeWindow' = syncWindow(fullQueue)
    /\ call' = "resolved"
    /\ UNCHANGED <<fullQueue, isFetching, outstanding, settled, added, skipped>>
    /\ UNCHANGED actionVars
    /\ UNCHANGED engineVars

\* the consume call after `await this.refill()` threw: nothing catches it
consumeThrew ==
    /\ call = "rejecting"
    /\ call' = "rejected"
    /\ UNCHANGED <<fullQueue, activeWindow, isFetching, outstanding, settled, added, skipped>>
    /\ UNCHANGED actionVars
    /\ UNCHANGED engineVars

\* new SwipeBuffer(initialEmails, onRefill, {windowSize}): the constructor,
\* as useSwipeBuffer calls it first and in reset
construct(initialEmails, windowSize) ==
    /\ fullQueue' = initialEmails
    /\ activeWindow' = syncWindowWith(fullQueue', windowSize)
    /\ isFetching' = FALSE
    /\ call' = "none"
    /\ outstanding' = 0
    /\ settled' = "none"
    /\ added' = <<>>
    /\ skipped' = FALSE
    /\ UNCHANGED actionVars
    /\ UNCHANGED engineVars

Construct ==
    \E initialEmails \in ConstructQueues : \E windowSize \in ConstructWindowSizes :
        construct(initialEmails, windowSize)

AddItem == \E email \in AddArgs : \E index \in AddIndexes : addItem(email, index)

ConsumeItem == \E id \in Ids : consumeItem(id)

ConsumeBatch == \E ids \in BatchArgs : consumeBatch(ids)

NukeDomain == \E domain \in Domains : nukeDomain(domain)

RefillResolved == \E newItems \in RefillBatches : refillResolved(newItems)

BufferNext ==
    \/ AddItem
    \/ ConsumeItem
    \/ ConsumeBatch
    \/ NukeDomain
    \/ RefillResolved
    \/ refillRejected
    \/ consumeResumed
    \/ consumeThrew


\* ------------------------------------------------------------ action engine
Tokens == 1 .. MaxTokens

\* the emails actions are executed on; an email's providerId is its id
ActionEmails == {1, 2}

\* by how much the clock moves between two handlers
TickSteps == {15000, 15001}

\* undoStore.get(token) === undefined
NoRecord == [action |-> "none", providerId |-> 0, filterId |-> 0, timestamp |-> 0]

\* the UndoData executeAction stores
UndoData(action, email, timestamp) ==
    [action |-> action, providerId |-> email, filterId |-> 0, timestamp |-> timestamp]

NoResult ==
    [op |-> "none", action |-> "none", token |-> 0, success |-> FALSE,
     undoToken |-> 0, undoExpiry |-> -1, error |-> "none"]

\* an ActionResult; undoToken 0 and undoExpiry -1 stand for null
ActionResult(success, action, undoToken, undoExpiry, error) ==
    [op |-> "executeAction", action |-> action, token |-> 0, success |-> success,
     undoToken |-> undoToken, undoExpiry |-> undoExpiry, error |-> error]

\* what undoAction(token) returns
UndoResult(token, success, error) ==
    [op |-> "undoAction", action |-> "none", token |-> token, success |-> success,
     undoToken |-> 0, undoExpiry |-> -1, error |-> error]

Remove(s, i) == SubSeq(s, 1, i - 1) \o SubSeq(s, i + 1, Len(s))

\* the window check rejecting at the deadline itself
windowPassedAtDeadline(undoData, t) == t - undoData.timestamp >= undoWindowMs

\* the undo window taken twice as long
windowPassedAfterTwice(undoData, t) == t - undoData.timestamp > 2 * undoWindowMs

\* Date.now() - undoData.timestamp > PERFORMANCE.undoWindowMs
windowPassed(undoData, t) == t - undoData.timestamp > undoWindowMs

\* executeAction("delete", email) up to `await trashEmail(...)`: the token and
\* the expiry are fixed before the provider is called
executeDelete(email) ==
    /\ nextToken <= MaxTokens
    /\ Len(pendingExec) < MaxCalls
    /\ pendingExec' = Append(pendingExec,
           [action |-> "delete", email |-> email, undoToken |-> nextToken,
            undoExpiry |-> now + undoWindowMs])
    /\ nextToken' = nextToken + 1
    /\ origin' = [origin EXCEPT ![nextToken] = email]
    /\ UNCHANGED <<undoStore, now, trashed, pendingUndo, lastResult, reversed>>
    /\ UNCHANGED bufferVars
    /\ UNCHANGED engineVars

\* trashEmail returned `success` to the i-th executeAction call in flight
trashEmailReturned(i, success) ==
    /\ i \in DOMAIN pendingExec
    /\ pendingExec[i].action = "delete"
    /\ LET c == pendingExec[i]
       IN  /\ pendingExec' = Remove(pendingExec, i)
           /\ IF success
              THEN /\ undoStore' = [undoStore EXCEPT
                          ![c.undoToken] = UndoData("delete", c.email, now)]
                   /\ trashed' = trashed \cup {c.email}
                   /\ lastResult' = ActionResult(TRUE, "delete", c.undoToken,
                                                 c.undoExpiry, "none")
              ELSE /\ lastResult' = ActionResult(FALSE, "delete", 0, -1,
                                                 "Failed to delete email")
                   /\ UNCHANGED <<undoStore, trashed>>
    /\ UNCHANGED <<now, nextToken, pendingUndo, origin, reversed>>
    /\ UNCHANGED bufferVars
    /\ UNCHANGED engineVars

\* executeAction("keep", email): no provider call and no undoStore.set
executeKeep(email) ==
    /\ nextToken <= MaxTokens
    /\ nextToken' = nextToken + 1
    /\ origin' = [origin EXCEPT ![nextToken] = email]
    /\ lastResult' = ActionResult(TRUE, "keep", nextToken, now + undoWindowMs, "none")
    /\ UNCHANGED <<undoStore, now, trashed, pendingExec, pendingUndo, reversed>>
    /\ UNCHANGED bufferVars
    /\ UNCHANGED engineVars

\* undoAction(token) up to its provider call, or to its return when it
\* makes none
undoAction(token) ==
    LET undoData == undoStore[token]
    IN  /\ IF undoData = NoRecord
           THEN /\ lastResult' = UndoResult(token, FALSE, "Undo token not found or expired")
                /\ UNCHANGED <<undoStore, pendingUndo, reversed>>
           ELSE IF windowPassed(undoData, now)
           THEN /\ undoStore' = [undoStore EXCEPT ![token] = NoRecord]
                /\ lastResult' = UndoResult(token, FALSE, "Undo window has expired")
                /\ UNCHANGED <<pendingUndo, reversed>>
           ELSE IF undoData.action = "delete"
           THEN \* await untrashEmail(auth, undoData.providerId)
                /\ Len(pendingUndo) < MaxCalls
                /\ pendingUndo' = Append(pendingUndo,
                       [token |-> token, providerCall |-> "untrash",
                        providerId |-> undoData.providerId])
                /\ UNCHANGED <<undoStore, lastResult, reversed>>
           ELSE IF undoData.action \in {"block", "nuke"} /\ undoData.filterId # 0
           THEN \* await deleteFilter(auth, undoData.filterId)
                /\ Len(pendingUndo) < MaxCalls
                /\ pendingUndo' = Append(pendingUndo,
                       [token |-> token, providerCall |-> "deleteFilter",
                        providerId |-> undoData.filterId])
                /\ UNCHANGED <<undoStore, lastResult, reversed>>
           ELSE \* block and nuke without a filter id, unsubscribe, keep
                /\ undoStore' = [undoStore EXCEPT ![token] = NoRecord]
                /\ lastResult' = UndoResult(token, TRUE, "none")
                /\ reversed' = reversed \cup {token}
                /\ UNCHANGED pendingUndo
        /\ UNCHANGED <<now, nextToken, trashed, pendingExec, origin>>
        /\ UNCHANGED bufferVars
        /\ UNCHANGED engineVars

\* the return of untrashEmail with the record deleted whatever it returned
untrashEmailReturnedDroppingRecord(i, success) ==
    /\ i \in DOMAIN pendingUndo
    /\ pendingUndo[i].providerCall = "untrash"
    /\ LET c == pendingUndo[i]
       IN  /\ pendingUndo' = Remove(pendingUndo, i)
           /\ undoStore' = [undoStore EXCEPT ![c.token] = NoRecord]
           /\ IF success
              THEN /\ trashed' = trashed \ {c.providerId}
                   /\ lastResult' = UndoResult(c.token, TRUE, "none")
                   /\ reversed' = reversed \cup {c.token}
              ELSE /\ lastResult' = UndoResult(c.token, FALSE, "Failed to untrash email")
                   /\ UNCHANGED <<trashed, reversed>>
    /\ UNCHANGED <<now, nextToken, pendingExec, origin>>
    /\ UNCHANGED bufferVars
    /\ UNCHANGED engineVars

\* the return of untrashEmail with the record left in the store
untrashEmailReturnedKeepingRecord(i, success) ==
    /\ i \in DOMAIN pendingUndo
    /\ pendingUndo[i].providerCall = "untrash"
    /\ LET c == pendingUndo[i]
       IN  /\ pendingUndo' = Remove(pendingUndo, i)
           /\ IF success
              THEN /\ trashed' = trashed \ {c.providerId}
                   /\ lastResult' = UndoResult(c.token, TRUE, "none")
                   /\ reversed' = reversed \cup {c.token}
              ELSE /\ lastResult' = UndoResult(c.token, FALSE, "Failed to untrash email")
                   /\ UNCHANGED <<trashed, reversed>>
    /\ UNCHANGED <<undoStore, now, nextToken, pendingExec, origin>>
    /\ UNCHANGED bufferVars
    /\ UNCHANGED engineVars

\* untrashEmail returned `success` to the i-th undoAction call in flight
untrashEmailReturned(i, success) ==
    /\ i \in DOMAIN pendingUndo
    /\ pendingUndo[i].providerCall = "untrash"
    /\ LET c == pendingUndo[i]
       IN  /\ pendingUndo' = Remove(pendingUndo, i)
           /\ IF success
              THEN /\ undoStore' = [undoStore EXCEPT ![c.token] = NoRecord]
                   /\ trashed' = trashed \ {c.providerId}
                   /\ lastResult' = UndoResult(c.token, TRUE, "none")
                   /\ reversed' = reversed \cup {c.token}
              ELSE /\ lastResult' = UndoResult(c.token, FALSE, "Failed to untrash email")
                   /\ UNCHANGED <<undoStore, trashed, reversed>>
    /\ UNCHANGED <<now, nextToken, pendingExec, origin>>
    /\ UNCHANGED bufferVars
    /\ UNCHANGED engineVars

\* cleanupExpiredUndoTokens()
cleanupExpiredUndoTokens ==
    /\ undoStore' = [t \in Tokens |->
           IF undoStore[t] # NoRecord /\ windowPassed(undoStore[t], now)
           THEN NoRecord ELSE undoStore[t]]
    /\ UNCHANGED <<now, nextToken, trashed, pendingExec, pendingUndo, lastResult,
                   origin, reversed>>
    /\ UNCHANGED bufferVars
    /\ UNCHANGED engineVars

\* getRemainingUndoTime(undoToken) called now; -1 stands for null
getRemainingUndoTime(undoToken) ==
    LET undoData == undoStore[undoToken]
        elapsed == now - undoData.timestamp
        remaining == undoWindowMs - elapsed
    IN  IF undoData = NoRecord THEN -1
        ELSE IF remaining > 0 THEN remaining
        ELSE -1

\* time passes between two handlers
tick(d) ==
    /\ now + d <= MaxTime
    /\ now' = now + d
    /\ UNCHANGED <<undoStore, nextToken, trashed, pendingExec, pendingUndo,
                   lastResult, origin, reversed>>
    /\ UNCHANGED bufferVars
    /\ UNCHANGED engineVars

ExecuteDelete == \E email \in ActionEmails : executeDelete(email)

TrashEmailReturned ==
    \E i \in 1 .. MaxCalls : \E success \in BOOLEAN : trashEmailReturned(i, success)

ExecuteKeep == \E email \in ActionEmails : executeKeep(email)

UndoAction == \E token \in Tokens : undoAction(token)

UntrashEmailReturned ==
    \E i \in 1 .. MaxCalls : \E success \in BOOLEAN : untrashEmailReturned(i, success)

Tick == \E d \in TickSteps : tick(d)

ActionNext ==
    \/ ExecuteDelete
    \/ TrashEmailReturned
    \/ ExecuteKeep
    \/ UndoAction
    \/ UntrashEmailReturned
    \/ cleanupExpiredUndoTokens
    \/ Tick

\* ------------------------------------------------------------ safety policy
\* A domain is the sequence of its labels ("mail.chase.com" is
\* <<"mail", "chase", "com">>); a sender's local part, a sender name, a
\* subject and a URL are sequences of tokens.

\* String.prototype.toLowerCase on the labels the inbox uses
toLowerCase(label) ==
    CASE label = "EBAY" -> "ebay"
      [] label = "COM" -> "com"
      [] label = "Bulk" -> "bulk"
      [] OTHER -> label

lowerDomain(domain) == [i \in DOMAIN domain |-> toLowerCase(domain[i])]

\* lowerDomain === d || lowerDomain.endsWith(`.${d}`)
matchesDomain(domain, d) ==
    /\ Len(domain) >= Len(d)
    /\ SubSeq(domain, Len(domain) - Len(d) + 1, Len(domain)) = d

\* DOMAIN_SAFETY.neverNuke
neverNuke ==
    {<<"google", "com">>, <<"gmail", "com">>, <<"apple", "com">>,
     <<"icloud", "com">>, <<"microsoft", "com">>, <<"amazon", "com">>,
     <<"facebook", "com">>, <<"meta", "com">>, <<"twitter", "com">>,
     <<"x", "com">>, <<"linkedin", "com">>, <<"gov">>, <<"edu">>, <<"mil">>,
     <<"chase", "com">>, <<"bankofamerica", "com">>, <<"wellsfargo", "com">>,
     <<"citibank", "com">>, <<"usbank", "com">>, <<"united", "com">>,
     <<"delta", "com">>, <<"aa", "com">>, <<"southwest", "com">>}

\* DOMAIN_SAFETY.caution
caution ==
    {<<"ebay", "com">>, <<"etsy", "com">>, <<"shopify", "com">>,
     <<"netflix", "com">>, <<"spotify", "com">>, <<"hulu", "com">>,
     <<"disneyplus", "com">>, <<"hbomax", "com">>}

\* DOMAIN_SAFETY.safeToNuke
safeToNuke ==
    {<<"mailchimp", "com">>, <<"sendgrid", "net">>, <<"mailgun", "org">>,
     <<"constantcontact", "com">>, <<"substack", "com">>,
     <<"campaignmonitor", "com">>, <<"convertkit", "com">>,
     <<"klaviyo", "com">>, <<"mailerlite", "com">>, <<"sendinblue", "com">>,
     <<"drip", "com">>, <<"beehiiv", "com">>, <<"revue", "co">>,
     <<"buttondown", "email">>, <<"getresponse", "com">>,
     <<"activecampaign", "com">>}

\* getDomainSafetyCategory(domain)
getDomainSafetyCategory(domain) ==
    IF \E d \in neverNuke : matchesDomain(lowerDomain(domain), d)
    THEN "never_nuke"
    ELSE IF \E d \in caution : matchesDomain(lowerDomain(domain), d) THEN "caution"
    ELSE IF \E d \in safeToNuke : matchesDomain(lowerDomain(domain), d)
    THEN "safe_to_nuke"
    ELSE "unknown"

\* personalDomains of isLikelyPersonalSender
personalDomains ==
    {<<"gmail", "com">>, <<"yahoo", "com">>, <<"hotmail", "com">>,
     <<"outlook", "com">>, <<"icloud", "com">>, <<"aol", "com">>,
     <<"protonmail", "com">>, <<"zoho", "com">>, <<"fastmail", "com">>}

\* the tokens [a-z]+ matches (case-insensitively) in the inbox
LetterWords == {"jane", "doe", "news", "deals", "offers", "promo", "noreply",
                "hello", "team"}

\* the tokens [A-Z][a-z]+ matches in the inbox
CapitalisedWords == {"Jane", "Doe", "Acme", "Substack"}

\* /^[a-z]+[._][a-z]+$/i.test(localPart)
isNameLocalPart(localPart) ==
    /\ Len(localPart) = 3
    /\ localPart[1] \in LetterWords
    /\ localPart[2] \in {".", "_"}
    /\ localPart[3] \in LetterWords

\* senderName.match(/^([A-Z][a-z]+)\s+([A-Z][a-z]+)$/)
isFirstLastName(senderName) ==
    /\ Len(senderName) = 2
    /\ senderName[1] \in CapitalisedWords
    /\ senderName[2] \in CapitalisedWords

\* isLikelyPersonalSender(email)
isLikelyPersonalSender(email) ==
    \/ /\ lowerDomain(email.senderDomain) \in personalDomains
       /\ isNameLocalPart(email.sender)
    \/ isFirstLastName(email.senderName)

\* TRANSACTIONAL_PATTERNS
TRANSACTIONAL_PATTERNS ==
    {"noreply", "no-reply", "do-not-reply", "donotreply", "receipt", "order",
     "invoice", "confirmation", "shipping", "tracking", "security", "verify",
     "verification", "password", "reset", "account", "billing", "payment",
     "support", "help", "service"}

\* transactionalSubjectPatterns of isTransactional
transactionalSubjectPatterns ==
    {"order confirmation", "shipping confirmation", "your receipt",
     "your order", "password reset", "verify your", "confirm your",
     "security alert", "login attempt", "payment received", "invoice",
     "statement", "appointment", "reservation", "booking confirmation",
     "flight", "itinerary"}

\* text.includes(pattern) for one of the patterns, token by token
includesAny(tokens, patterns) == \E i \in DOMAIN tokens : tokens[i] \in patterns

\* isTransactional(email): the sender is the local part and the domain
isTransactional(email) ==
    \/ includesAny(email.sender \o lowerDomain(email.senderDomain),
                   TRANSACTIONAL_PATTERNS)
    \/ includesAny(email.subject, transactionalSubjectPatterns)

\* a gate result: reason "" stands for no reason
Allowed == [allowed |-> TRUE, requiresConfirmation |-> FALSE, reason |-> ""]

Denied(reason) ==
    [allowed |-> FALSE, requiresConfirmation |-> FALSE, reason |-> reason]

NeedsConfirmation(reason) ==
    [allowed |-> TRUE, requiresConfirmation |-> TRUE, reason |-> reason]

\* canBlockSender with the personal-sender rule left out
canBlockSenderIgnoringPersonal(email) ==
    IF isTransactional(email)
    THEN Denied("Cannot block transactional senders")
    ELSE IF getDomainSafetyCategory(email.senderDomain) = "never_nuke"
    THEN Denied("Cannot block senders from protected domains")
    ELSE Allowed

\* canBlockSender(email)
canBlockSender(email) ==
    IF isLikelyPersonalSender(email)
    THEN Denied("Cannot block personal senders")
    ELSE IF isTransactional(email)
    THEN Denied("Cannot block transactional senders")
    ELSE IF getDomainSafetyCategory(email.senderDomain) = "never_nuke"
    THEN Denied("Cannot block senders from protected domains")
    ELSE Allowed

\* canNukeDomain for a caller that never has to confirm
canNukeDomainWithoutConfirmation(domain) ==
    IF getDomainSafetyCategory(domain) = "never_nuke"
    THEN Denied("This domain cannot be nuked (protected)")
    ELSE Allowed

\* canNukeDomain(domain)
canNukeDomain(domain) ==
    IF getDomainSafetyCategory(domain) = "never_nuke"
    THEN Denied("This domain cannot be nuked (protected)")
    ELSE IF getDomainSafetyCategory(domain) = "caution"
    THEN NeedsConfirmation("This domain may contain important emails. Please confirm.")
    ELSE Allowed

\* SUSPICIOUS_PATTERNS
SUSPICIOUS_PATTERNS ==
    {"track.", "redirect.", "click.", "bit.ly", "t.co", "goo.gl", "tinyurl",
     "ow.ly"}

\* isSuspiciousLink(url)
isSuspiciousLink(url) == includesAny(url, SUSPICIOUS_PATTERNS)

\* checkUnsubscribeSafety(email); `allowed` is the source's `safe`
checkUnsubscribeSafety(email) ==
    IF ~canBlockSender(email).allowed
    THEN Denied(canBlockSender(email).reason)
    ELSE IF email.listUnsubscribe.http # <<>>
            /\ isSuspiciousLink(email.listUnsubscribe.http)
    THEN NeedsConfirmation("Unsubscribe link looks suspicious. Please confirm.")
    ELSE IF getDomainSafetyCategory(email.senderDomain) = "caution"
    THEN NeedsConfirmation("This sender is from a domain that may send important emails.")
    ELSE Allowed

\* url.startsWith("https://")
isHttps(url) == Len(url) > 0 /\ url[1] = "https://"

\* a NormalizedEmail, by the fields the engines read; the id is the providerId
Email(id, sender, senderName, domain, subject, http, mailto) ==
    [id |-> id, sender |-> sender, senderName |-> senderName,
     senderDomain |-> domain, subject |-> subject,
     listUnsubscribe |-> [http |-> http, mailto |-> mailto]]

CleanLink == <<"https://", "substack.com", "/unsubscribe">>
SuspiciousLink == <<"https://", "click.", "example.com", "/u">>
InsecureLink == <<"http://", "example.com", "/unsubscribe">>

\* the inbox the engines are called on: email id -> NormalizedEmail
inbox ==
    <<Email(1, <<"news">>, <<"Substack">>, <<"substack", "com">>,
            <<"weekly digest">>, CleanLink, "unsubscribe@substack.com"),
      Email(2, <<"deals">>, <<>>, <<"shop", "example", "com">>,
            <<"weekly deals">>, SuspiciousLink, ""),
      Email(3, <<"offers">>, <<"eBay">>, <<"EBAY", "COM">>,
            <<"weekly deals">>, CleanLink, "unsubscribe@ebay.com"),
      Email(4, <<"promo">>, <<>>, <<"mail", "chase", "com">>,
            <<"weekly deals">>, CleanLink, ""),
      Email(5, <<"jane", ".", "doe">>, <<"Jane", "Doe">>, <<"yahoo", "com">>,
            <<"hello">>, <<>>, ""),
      Email(6, <<"noreply">>, <<>>, <<"shop", "example", "com">>,
            <<"your order">>, CleanLink, ""),
      Email(7, <<"team">>, <<>>, <<"shop", "example", "com">>,
            <<"weekly digest">>, InsecureLink, "leave@example.com"),
      Email(8, <<"hello">>, <<>>, <<"news", "example", "org">>,
            <<"weekly digest">>, <<>>, "")>>

EmailIds == DOMAIN inbox

\* the domains nukeDomain is called on
NukeDomains == {inbox[id].senderDomain : id \in {1, 3, 4, 8}}

\* ------------------------------------------------------- the classifier
\* Scores, weights and confidences are in hundredths; a weighted sum, and a
\* confidence, is in ten-thousandths (the sum of products of hundredths).

\* MARKETING_DOMAINS
MARKETING_DOMAINS ==
    {<<"mailchimp", "com">>, <<"sendgrid", "net">>, <<"mailgun", "org">>,
     <<"constantcontact", "com">>, <<"substack", "com">>,
     <<"campaignmonitor", "com">>, <<"convertkit", "com">>,
     <<"klaviyo", "com">>, <<"mailerlite", "com">>, <<"sendinblue", "com">>,
     <<"drip", "com">>, <<"beehiiv", "com">>, <<"getresponse", "com">>,
     <<"activecampaign", "com">>, <<"aweber", "com">>, <<"mailjet", "com">>,
     <<"sparkpost", "com">>, <<"postmarkapp", "com">>, <<"mandrill", "com">>,
     <<"sailthru", "com">>, <<"braze", "com">>, <<"iterable", "com">>,
     <<"customer", "io">>, <<"intercom", "com">>}

\* lowerDomain.includes(marketingDomain), label by label
includesDomain(domain, d) ==
    \E i \in 1 .. Len(domain) :
        /\ i + Len(d) - 1 <= Len(domain)
        /\ SubSeq(domain, i, i + Len(d) - 1) = d

\* checkListUnsubscribe with the descriptor counted against the item
checkListUnsubscribeInverted(email) ==
    IF email.listUnsubscribe.http # <<>> \/ email.listUnsubscribe.mailto # ""
    THEN 0
    ELSE 100

\* checkListUnsubscribe(email)
checkListUnsubscribe(email) ==
    IF email.listUnsubscribe.http # <<>> \/ email.listUnsubscribe.mailto # ""
    THEN 100
    ELSE 0

\* checkProviderCategory(email)
checkProviderCategory(email) ==
    IF "CATEGORY_PROMOTIONS" \in email.labels \/ "CATEGORY_SOCIAL" \in email.labels
    THEN 95
    ELSE IF "CATEGORY_UPDATES" \in email.labels THEN 50
    ELSE 0

\* checkSenderDomain reading the Return-Path only
checkSenderDomainOfReturnPath(email) ==
    IF \E d \in MARKETING_DOMAINS :
           includesDomain(lowerDomain(email.headers.returnPath), d)
    THEN 85
    ELSE 0

\* checkSenderDomain(email); headers.returnPath is the domain after its "@",
\* <<>> when the header is absent
checkSenderDomain(email) ==
    IF \E d \in MARKETING_DOMAINS : includesDomain(lowerDomain(email.senderDomain), d)
    THEN 90
    ELSE IF \E d \in MARKETING_DOMAINS :
               includesDomain(lowerDomain(email.headers.returnPath), d)
    THEN 85
    ELSE 0

Max(S) == CHOOSE x \in S : \A y \in S : y <= x

\* analyzeHeaders(email)
analyzeHeaders(email) ==
    LET headers == email.headers
    IN  Max({0}
            \cup (IF toLowerCase(headers.precedence) = "bulk" THEN {80} ELSE {})
            \cup (IF includesAny(headers.xMailer, {"campaign"}) THEN {70} ELSE {})
            \cup (IF headers.xList THEN {75} ELSE {})
            \cup (IF headers.xCampaign THEN {80} ELSE {})
            \cup (IF headers.xNewsletter THEN {90} ELSE {})
            \cup (IF headers.xSgEid THEN {75} ELSE {})
            \cup (IF headers.xMailgunSid THEN {75} ELSE {})
            \cup (IF headers.xMailchimp THEN {85} ELSE {}))

\* senderStats undefined
NoStats == [present |-> FALSE, frequencyScore |-> 0, reputationScore |-> 0]

Stats(frequencyScore, reputationScore) ==
    [present |-> TRUE, frequencyScore |-> frequencyScore,
     reputationScore |-> reputationScore]

\* a DetectionResult
DetectionResult(type, confidence, signals) ==
    [type |-> type, confidence |-> confidence, signals |-> signals]

\* the signals of a result returned by a safety check
safetySignals(email) ==
    [listUnsubscribe |-> FALSE, senderReputation |-> 0,
     providerCategory |-> email.category, frequencyScore |-> 0,
     htmlSignals |-> 0, headerSignals |-> 0]

\* the weighted scoring and the thresholds of detectNewsletter
weightedDetection(email, senderStats) ==
    LET listUnsubscribeScore == checkListUnsubscribe(email)
        providerCategoryScore == checkProviderCategory(email)
        senderDomainScore == checkSenderDomain(email)
        headerScore == analyzeHeaders(email)
        \* senderStats?.frequencyScore || 0
        frequencyScore == IF senderStats.present THEN senderStats.frequencyScore ELSE 0
        \* senderStats?.reputationScore || 0.5
        reputationScore ==
            IF senderStats.present /\ senderStats.reputationScore # 0
            THEN senderStats.reputationScore
            ELSE 50
        finalScore ==
            listUnsubscribeScore * 35
                + Max({reputationScore, senderDomainScore}) * 25
                + providerCategoryScore * 20
                + frequencyScore * 10
                + 0 * 5
                + headerScore * 5
        byThreshold ==
            IF finalScore >= 7500 THEN "newsletter"
            ELSE IF finalScore >= 5000 THEN "promo"
            ELSE IF finalScore >= 3000 THEN "social"
            ELSE "unknown"
        type ==
            IF "CATEGORY_PROMOTIONS" \in email.labels /\ byThreshold = "unknown"
            THEN "promo"
            ELSE IF "CATEGORY_SOCIAL" \in email.labels /\ byThreshold = "unknown"
            THEN "social"
            ELSE byThreshold
    IN  DetectionResult(type, IF finalScore < 10000 THEN finalScore ELSE 10000,
                        [listUnsubscribe |-> listUnsubscribeScore > 0,
                         senderReputation |-> reputationScore,
                         providerCategory |-> email.category,
                         frequencyScore |-> frequencyScore,
                         htmlSignals |-> 0,
                         headerSignals |-> headerScore])

\* detectNewsletter with the personal check before the transactional one
detectNewsletterPersonalFirst(email, senderStats) ==
    IF isLikelyPersonalSender(email)
    THEN DetectionResult("personal", 8000, safetySignals(email))
    ELSE IF isTransactional(email)
    THEN DetectionResult("transactional", 9000, safetySignals(email))
    ELSE weightedDetection(email, senderStats)

\* detectNewsletter(email, senderStats)
detectNewsletter(email, senderStats) ==
    IF isTransactional(email)
    THEN DetectionResult("transactional", 9000, safetySignals(email))
    ELSE IF isLikelyPersonalSender(email)
    THEN DetectionResult("personal", 8000, safetySignals(email))
    ELSE weightedDetection(email, senderStats)

\* the headers of an email that has none of them
NoHeaders ==
    [precedence |-> "", returnPath |-> <<>>, xMailer |-> <<>>, xCampaign |-> FALSE,
     xNewsletter |-> FALSE, xList |-> FALSE, xSgEid |-> FALSE,
     xMailgunSid |-> FALSE, xMailchimp |-> FALSE]

\* a NormalizedEmail with the fields the classifier reads besides the
\* engines' ones
ClassifiedEmail(email, listUnsubscribe, labels, headers) ==
    [category |-> "unknown", labels |-> labels, headers |-> headers]
        @@ [email EXCEPT !.listUnsubscribe = listUnsubscribe]

\* the senders and subjects classified: a marketing platform, a plain list,
\* a transactional sender, a transactional subject, a person, and two that
\* are a person's and transactional at once
ClassifiedSenders ==
    {Email(0, <<"news">>, <<"Substack">>, <<"substack", "com">>,
           <<"weekly digest">>, <<>>, ""),
     Email(0, <<"hello">>, <<>>, <<"news", "example", "org">>,
           <<"weekly digest">>, <<>>, ""),
     Email(0, <<"noreply">>, <<>>, <<"shop", "example", "com">>,
           <<"weekly deals">>, <<>>, ""),
     Email(0, <<"hello">>, <<>>, <<"news", "example", "org">>,
           <<"your order">>, <<>>, ""),
     Email(0, <<"jane", ".", "doe">>, <<"Jane", "Doe">>, <<"yahoo", "com">>,
           <<"hello">>, <<>>, ""),
     Email(0, <<"jane", ".", "doe">>, <<"Jane", "Doe">>, <<"yahoo", "com">>,
           <<"your order">>, <<>>, ""),
     Email(0, <<"support">>, <<"Jane", "Doe">>, <<"shop", "example", "com">>,
           <<"hello">>, <<>>, "")}

\* the unsubscribe descriptors: none, a link, an address, both
Descriptors ==
    {[http |-> http, mailto |-> mailto] :
        http \in {<<>>, CleanLink}, mailto \in {"", "unsubscribe@substack.com"}}

LabelSets ==
    {{"INBOX"}, {"INBOX", "CATEGORY_PROMOTIONS"}, {"CATEGORY_SOCIAL"},
     {"INBOX", "CATEGORY_UPDATES"}}

HeaderSets ==
    {NoHeaders,
     [NoHeaders EXCEPT !.precedence = "Bulk"],
     [NoHeaders EXCEPT !.xNewsletter = TRUE, !.xList = TRUE],
     [NoHeaders EXCEPT !.returnPath = <<"bounce", "sendgrid", "net">>],
     [NoHeaders EXCEPT !.xMailer = <<"campaign", "monitor">>, !.xSgEid = TRUE]}

\* the statistics of the batch's sender in senderStatsMap: none, or scores
StatsSets == {NoStats, Stats(0, 0), Stats(100, 100), Stats(60, 30)}

\* the batches classified: two emails of one sender, with the same labels and
\* headers, each with a descriptor of its own
Batches ==
    {<<[ClassifiedEmail(sender, first, labels, headers) EXCEPT !.id = 1],
       [ClassifiedEmail(sender, second, labels, headers) EXCEPT !.id = 2]>> :
        sender \in ClassifiedSenders, first \in Descriptors, second \in Descriptors,
        labels \in LabelSets, headers \in HeaderSets}

\* the batches of the end-to-end example: twelve emails of a marketing
\* platform, with ids 1 to 12 and an unsubscribe descriptor
ExampleBatchSize == 12

ExampleBatches ==
    {[id \in 1 .. ExampleBatchSize |->
         [ClassifiedEmail(sender, listUnsubscribe, labels, headers) EXCEPT !.id = id]] :
        sender \in {e \in ClassifiedSenders : e.senderDomain \in MARKETING_DOMAINS},
        listUnsubscribe \in {d \in Descriptors : d.http # <<>> \/ d.mailto # ""},
        labels \in LabelSets, headers \in HeaderSets}

\* no batch, and no Map returned
NoDetection == [emails |-> <<>>, senderStats |-> NoStats, results |-> <<>>]

\* batchDetectNewsletters(emails, senderStatsMap) returns its Map:
\* detection.senderStats is senderStatsMap.get(email.sender), the same for the
\* emails of a batch, and results is keyed by email.id
batchDetectNewsletters ==
    /\ detection.emails # <<>>
    /\ detection.results = <<>>
    /\ detection' = [detection EXCEPT !.results =
           [id \in {detection.emails[i].id : i \in DOMAIN detection.emails} |->
               LET last == Max({i \in DOMAIN detection.emails :
                                   detection.emails[i].id = id})
               IN  detectNewsletter(detection.emails[last], detection.senderStats)]]
    /\ UNCHANGED <<run, calls>>
    /\ UNCHANGED actionVars
    /\ UNCHANGED bufferVars

\* ------------------------------------------------------------ the engines
\* the capabilities the caller hands to executeUnsubscribe, and its
\* confirmation flag (confirmUnsafe, confirmCaution)
Options(confirm, sendMailto, createBlockFilter, markAsSpam) ==
    [confirm |-> confirm, sendMailto |-> sendMailto,
     createBlockFilter |-> createBlockFilter, markAsSpam |-> markAsSpam]

NoOptions == Options(FALSE, FALSE, FALSE, FALSE)

\* what executeAction hands to executeUnsubscribe
ActionUnsubscribeOptions == Options(FALSE, FALSE, TRUE, TRUE)

\* the metadata of an engine's result; "none", FALSE and 0 stand for a key
\* that is not in the object
NoMetadata ==
    [error |-> "none", requiresConfirmation |-> FALSE, reason |-> "none",
     filterId |-> 0, emailsDeleted |-> 0, sendersBlocked |-> 0]

\* an UnsubscribeResult; undoToken is TRUE for a token, FALSE for null
UnsubscribeResult(success, method, fallbackUsed, undoToken, metadata) ==
    [success |-> success, method |-> method, fallbackUsed |-> fallbackUsed,
     undoToken |-> undoToken, metadata |-> metadata]

\* a BlockResult
BlockResult(success, action, undoToken, metadata) ==
    [success |-> success, action |-> action, undoToken |-> undoToken,
     metadata |-> metadata]

NoEngineResult == [success |-> FALSE, undoToken |-> FALSE, metadata |-> NoMetadata]

\* no engine call yet
NoRun ==
    [fn |-> "none", via |-> "direct", email |-> 0, domain |-> <<>>,
     options |-> NoOptions, pc |-> "idle", retryCount |-> 0, senders |-> 0,
     existing |-> 0, emailsDeleted |-> 0, filterId |-> 0, undoToken |-> 0,
     undoExpiry |-> -1, result |-> NoEngineResult]

\* a call of engine fn, made directly or by executeAction, at its first line
NewRun(fn, via, email, domain, options, undoToken, undoExpiry) ==
    [NoRun EXCEPT !.fn = fn, !.via = via, !.email = email, !.domain = domain,
                  !.options = options, !.undoToken = undoToken,
                  !.undoExpiry = undoExpiry]

\* the engine returns result
Returned(r, log, result) ==
    [run |-> [r EXCEPT !.pc = "returned", !.result = result], calls |-> log]

\* the engine awaits a capability
Awaiting(r, log, pc, capability) ==
    [run |-> [r EXCEPT !.pc = pc], calls |-> Append(log, capability)]

\* no engine call is in progress
Settled ==
    \/ run.pc \in {"idle", "threw"}
    \/ run.pc = "returned" /\ run.via = "direct"

\* the stages of executeUnsubscribe, in the order of its if statements
Stages == <<"http", "mailto", "block", "spam">>

\* a guard that admits every stage
availableAlways(email, options, stage) == TRUE

\* the condition of the if statement that guards a stage
available(email, options, stage) ==
    CASE stage = "http" -> email.listUnsubscribe.http # <<>>
      [] stage = "mailto" -> email.listUnsubscribe.mailto # "" /\ options.sendMailto
      [] stage = "block" -> options.createBlockFilter
      [] stage = "spam" -> options.markAsSpam

AllFailed ==
    UnsubscribeResult(FALSE, "http", TRUE, FALSE,
                      [NoMetadata EXCEPT !.error = "All unsubscribe methods failed"])

\* executeUnsubscribe from the if statement of stage k on, up to its next
\* await of a capability or to its return
RECURSIVE unsubscribeFrom(_, _, _)
unsubscribeFrom(r, log, k) ==
    IF k > Len(Stages) THEN Returned(r, log, AllFailed)
    ELSE IF ~available(inbox[r.email], r.options, Stages[k])
    THEN unsubscribeFrom(r, log, k + 1)
    ELSE IF Stages[k] = "http"
    THEN IF isHttps(inbox[r.email].listUnsubscribe.http)
         THEN Awaiting(r, Append(log, "httpUnsubscribe"), "http_get", "GET")
         ELSE \* "Only HTTPS unsubscribe links are supported"
              unsubscribeFrom(r, Append(log, "httpUnsubscribe"), k + 1)
    ELSE IF Stages[k] = "mailto" THEN Awaiting(r, log, "mailto", "sendMailto")
    ELSE IF Stages[k] = "block" THEN Awaiting(r, log, "block", "createBlockFilter")
    ELSE Awaiting(r, log, "spam", "markAsSpam")

\* executeUnsubscribe from its first line to its first await or its return
unsubscribeStart(r) ==
    LET safetyCheck == checkUnsubscribeSafety(inbox[r.email])
    IN  IF ~safetyCheck.allowed
        THEN Returned(r, <<>>, UnsubscribeResult(FALSE, "http", FALSE, FALSE,
                 [NoMetadata EXCEPT !.error = safetyCheck.reason]))
        ELSE IF safetyCheck.requiresConfirmation /\ ~r.options.confirm
        THEN Returned(r, <<>>, UnsubscribeResult(FALSE, "http", FALSE, FALSE,
                 [NoMetadata EXCEPT !.requiresConfirmation = TRUE,
                                    !.reason = safetyCheck.reason]))
        ELSE unsubscribeFrom(r, <<>>, 1)

\* the variables the engines' steps leave alone
engineFrame ==
    /\ UNCHANGED <<undoStore, now, nextToken, trashed, pendingExec, pendingUndo,
                   lastResult, origin, reversed, detection>>
    /\ UNCHANGED bufferVars

\* executeUnsubscribe(email, options), called directly
executeUnsubscribe(email, options) ==
    /\ Settled
    /\ LET s == unsubscribeStart(
                   NewRun("executeUnsubscribe", "direct", email, <<>>, options, 0, -1))
       IN  run' = s.run /\ calls' = s.calls
    /\ engineFrame

\* the responses of fetch: a status, or 0 for a rejection (network error,
\* abort after 3 s)
HttpOutcomes == {0, 200, 204, 400, 405, 500}

\* response.ok || response.status === 204
isOk(status) == status \in {200, 204}

\* the end of an attempt of httpUnsubscribe with every later stage given up
retryOrFailGivingUp(r, log) ==
    IF r.retryCount = 0
    THEN [run |-> [r EXCEPT !.pc = "http_wait"], calls |-> log]
    ELSE Returned(r, log, AllFailed)

\* the end of a failed attempt of httpUnsubscribe with no retry
retryOrFailWithoutRetry(r, log) == unsubscribeFrom(r, log, 2)

\* the end of an attempt of httpUnsubscribe that did not succeed: retry
\* once after the timer, or give the stage up
retryOrFail(r, log) ==
    IF r.retryCount = 0
    THEN [run |-> [r EXCEPT !.pc = "http_wait"], calls |-> log]
    ELSE unsubscribeFrom(r, log, 2)

HttpSucceeded == UnsubscribeResult(TRUE, "http", FALSE, TRUE, NoMetadata)

\* fetch(url, GET) settled with status
httpGetReturned(status) ==
    /\ run.pc = "http_get"
    /\ LET s == IF isOk(status) THEN Returned(run, calls, HttpSucceeded)
                ELSE IF status \in {400, 405}
                THEN Awaiting(run, calls, "http_post", "POST")
                ELSE retryOrFail(run, calls)
       IN  run' = s.run /\ calls' = s.calls
    /\ engineFrame

\* fetch(url, POST) settled with status
httpPostReturned(status) ==
    /\ run.pc = "http_post"
    /\ LET s == IF isOk(status) THEN Returned(run, calls, HttpSucceeded)
                ELSE retryOrFail(run, calls)
       IN  run' = s.run /\ calls' = s.calls
    /\ engineFrame

\* the 500 ms timer fired: httpUnsubscribe(url, 1)
retryTimerFired ==
    /\ run.pc = "http_wait"
    /\ run' = [run EXCEPT !.pc = "http_get", !.retryCount = 1]
    /\ calls' = Append(calls, "GET")
    /\ engineFrame

\* options.sendMailto returned
sendMailtoReturned(success) ==
    /\ run.pc = "mailto"
    /\ LET s == IF success
                THEN Returned(run, calls,
                         UnsubscribeResult(TRUE, "mailto", FALSE, TRUE, NoMetadata))
                ELSE unsubscribeFrom(run, calls, 3)
       IN  run' = s.run /\ calls' = s.calls
    /\ engineFrame

\* options.createBlockFilter returned
createBlockFilterReturned(success) ==
    /\ run.pc = "block"
    /\ LET s == IF success
                THEN Returned(run, calls,
                         UnsubscribeResult(TRUE, "block", TRUE, TRUE, NoMetadata))
                ELSE unsubscribeFrom(run, calls, 4)
       IN  run' = s.run /\ calls' = s.calls
    /\ engineFrame

\* options.markAsSpam returned
markAsSpamReturned(success) ==
    /\ run.pc = "spam"
    /\ LET s == IF success
                THEN Returned(run, calls,
                         UnsubscribeResult(TRUE, "spam", TRUE, TRUE, NoMetadata))
                ELSE unsubscribeFrom(run, calls, 5)
       IN  run' = s.run /\ calls' = s.calls
    /\ engineFrame

\* how many message ids, or senders, an enumeration returns
Counts == {0, 2}

\* the ids createBlockFilter returns with success; 0 is an undefined id
FilterIds == {0, 1}

BlockFailed == BlockResult(FALSE, "block", FALSE, NoMetadata)

\* blockSender from its first line to its first await or its return; the
\* safety check's reason is not in the result
blockStart(r) ==
    IF ~canBlockSender(inbox[r.email]).allowed
    THEN Returned(r, <<>>, BlockFailed)
    ELSE Awaiting(r, <<>>, "createFilter", "createFilter")

\* blockSender(email, options), called directly
blockSender(email) ==
    /\ Settled
    /\ LET s == blockStart(NewRun("blockSender", "direct", email, <<>>, NoOptions, 0, -1))
       IN  run' = s.run /\ calls' = s.calls
    /\ engineFrame

\* options.createFilter returned {success, filterId}
createFilterReturned(success, filterId) ==
    /\ run.pc = "createFilter"
    /\ LET s == IF ~success THEN Returned(run, calls, BlockFailed)
                ELSE Awaiting([run EXCEPT !.filterId = filterId], calls,
                              "getEmailsFromSender", "getEmailsFromSender")
       IN  run' = s.run /\ calls' = s.calls
    /\ engineFrame

BlockSucceeded(r, emailsDeleted) ==
    BlockResult(TRUE, "block", TRUE,
                [NoMetadata EXCEPT !.filterId = r.filterId,
                                   !.emailsDeleted = emailsDeleted])

\* options.getEmailsFromSender returned n message ids
getEmailsFromSenderReturned(n) ==
    /\ run.pc = "getEmailsFromSender"
    /\ LET s == IF n > 0
                THEN Awaiting([run EXCEPT !.existing = n], calls,
                              "blockDelete", "deleteEmails")
                ELSE Returned(run, calls, BlockSucceeded(run, 0))
       IN  run' = s.run /\ calls' = s.calls
    /\ engineFrame

\* options.getEmailsFromSender rejected: blockSender rejects, and so does
\* the executeAction that called it
getEmailsFromSenderThrew ==
    /\ run.pc = "getEmailsFromSender"
    /\ run' = [run EXCEPT !.pc = "threw"]
    /\ UNCHANGED calls
    /\ engineFrame

\* blockSender reporting failure when its bulk delete failed
blockDeleteReturnedFailingOnFailure(deleteSuccess) ==
    /\ run.pc = "blockDelete"
    /\ LET s == Returned(run, calls,
                    IF deleteSuccess THEN BlockSucceeded(run, run.existing)
                    ELSE BlockFailed)
       IN  run' = s.run /\ calls' = s.calls
    /\ engineFrame

\* options.deleteEmails returned to blockSender
blockDeleteReturned(deleteSuccess) ==
    /\ run.pc = "blockDelete"
    /\ LET s == Returned(run, calls,
                    BlockSucceeded(run, IF deleteSuccess THEN run.existing ELSE 0))
       IN  run' = s.run /\ calls' = s.calls
    /\ engineFrame

NukeRefused == BlockResult(FALSE, "domain_nuke", FALSE, NoMetadata)

\* nukeDomain from its first line to its first await or its return; neither
\* refusal carries the safety check's reason
nukeStart(r) ==
    LET safetyCheck == canNukeDomain(r.domain)
    IN  IF ~safetyCheck.allowed
        THEN Returned(r, <<>>, NukeRefused)
        ELSE IF safetyCheck.requiresConfirmation /\ ~r.options.confirm
        THEN Returned(r, <<>>, NukeRefused)
        ELSE Awaiting(r, <<>>, "getSendersFromDomain", "getSendersFromDomain")

\* nukeDomain(domain, options) of the block engine, called directly
domainNuke(domain, confirmCaution) ==
    /\ Settled
    /\ LET s == nukeStart(NewRun("nukeDomain", "direct", 0, domain,
                                 Options(confirmCaution, FALSE, FALSE, FALSE), 0, -1))
       IN  run' = s.run /\ calls' = s.calls
    /\ engineFrame

\* options.getSendersFromDomain returned n senders
getSendersFromDomainReturned(n) ==
    /\ run.pc = "getSendersFromDomain"
    /\ run.via = "executeAction" => n = 0
    /\ LET s == Awaiting([run EXCEPT !.senders = n], calls,
                         "getEmailsFromDomain", "getEmailsFromDomain")
       IN  run' = s.run /\ calls' = s.calls
    /\ engineFrame

\* options.getEmailsFromDomain returned n message ids
getEmailsFromDomainReturned(n) ==
    /\ run.pc = "getEmailsFromDomain"
    /\ LET s == IF n > 0
                THEN Awaiting([run EXCEPT !.existing = n], calls,
                              "nukeDelete", "deleteEmails")
                ELSE Awaiting(run, calls, "createDomainFilter", "createDomainFilter")
       IN  run' = s.run /\ calls' = s.calls
    /\ engineFrame

\* options.getEmailsFromDomain rejected
getEmailsFromDomainThrew ==
    /\ run.pc = "getEmailsFromDomain"
    /\ run' = [run EXCEPT !.pc = "threw"]
    /\ UNCHANGED calls
    /\ engineFrame

\* nukeDomain returning without the filter when the bulk delete failed
nukeDeleteReturnedStoppingOnFailure(deleteSuccess) ==
    /\ run.pc = "nukeDelete"
    /\ LET s == IF deleteSuccess
                THEN Awaiting([run EXCEPT !.emailsDeleted = run.existing], calls,
                              "createDomainFilter", "createDomainFilter")
                ELSE Returned(run, calls,
                         BlockResult(FALSE, "domain_nuke", FALSE,
                                     [NoMetadata EXCEPT !.sendersBlocked = run.senders]))
       IN  run' = s.run /\ calls' = s.calls
    /\ engineFrame

\* options.deleteEmails returned to nukeDomain
nukeDeleteReturned(deleteSuccess) ==
    /\ run.pc = "nukeDelete"
    /\ LET s == Awaiting([run EXCEPT !.emailsDeleted =
                                 IF deleteSuccess THEN run.existing ELSE 0],
                         calls, "createDomainFilter", "createDomainFilter")
       IN  run' = s.run /\ calls' = s.calls
    /\ engineFrame

\* options.createDomainFilter returned {success, filterId}
createDomainFilterReturned(success, filterId) ==
    /\ run.pc = "createDomainFilter"
    /\ LET s == IF ~success
                THEN Returned(run, calls,
                         BlockResult(FALSE, "domain_nuke", FALSE,
                                     [NoMetadata EXCEPT
                                         !.sendersBlocked = run.senders,
                                         !.emailsDeleted = run.emailsDeleted]))
                ELSE Returned(run, calls,
                         BlockResult(TRUE, "domain_nuke", TRUE,
                                     [NoMetadata EXCEPT
                                         !.sendersBlocked = run.senders,
                                         !.emailsDeleted = run.emailsDeleted,
                                         !.filterId = filterId]))
       IN  run' = s.run /\ calls' = s.calls
    /\ engineFrame

\* an ActionResult of the unsubscribe, block and nuke cases: its metadata
\* is the engine's
EngineActionResult(success, action, undoToken, undoExpiry, metadata) ==
    [op |-> "executeAction", action |-> action, token |-> 0, success |-> success,
     undoToken |-> undoToken, undoExpiry |-> undoExpiry,
     error |-> metadata.error, metadata |-> metadata]

\* the part of executeAction before its switch: the token and the expiry
executeActionEntry(email) ==
    /\ Settled
    /\ nextToken <= MaxActions
    /\ nextToken' = nextToken + 1
    /\ origin' = [origin EXCEPT ![nextToken] = email]
    /\ UNCHANGED <<undoStore, now, trashed, pendingExec, pendingUndo, lastResult,
                   reversed, detection>>
    /\ UNCHANGED bufferVars

\* executeAction("unsubscribe", email) up to the first await inside
\* executeUnsubscribe
executeActionUnsubscribe(email) ==
    /\ executeActionEntry(email)
    /\ LET s == unsubscribeStart(NewRun("executeUnsubscribe", "executeAction", email,
                     <<>>, ActionUnsubscribeOptions, nextToken, now + undoWindowMs))
       IN  run' = s.run /\ calls' = s.calls

\* executeAction("block", email) up to the first await inside blockSender
executeActionBlock(email) ==
    /\ executeActionEntry(email)
    /\ LET s == blockStart(NewRun("blockSender", "executeAction", email, <<>>,
                     NoOptions, nextToken, now + undoWindowMs))
       IN  run' = s.run /\ calls' = s.calls

\* options?.domain || email.senderDomain; <<>> is no options.domain
nukeTarget(email, domain) ==
    IF domain # <<>> THEN domain ELSE inbox[email].senderDomain

\* executeAction("nuke", email, credentials, {confirmDomainNuke, domain}) up
\* to the first await inside nukeDomain
executeActionNuke(email, domain, confirmDomainNuke) ==
    /\ executeActionEntry(email)
    /\ LET s == nukeStart(NewRun("nukeDomain", "executeAction", email,
                     nukeTarget(email, domain),
                     Options(confirmDomainNuke, FALSE, FALSE, FALSE),
                     nextToken, now + undoWindowMs))
       IN  run' = s.run /\ calls' = s.calls

\* the UndoData of a block or a nuke
FilterUndoData(action, email, filterId, timestamp) ==
    [UndoData(action, email, timestamp) EXCEPT !.filterId = filterId]

\* the action executeAction names the engine's call by
actionOf(fn) ==
    CASE fn = "executeUnsubscribe" -> "unsubscribe"
      [] fn = "blockSender" -> "block"
      [] fn = "nukeDomain" -> "nuke"

\* executeAction that stores the record whatever the engine returned
executeActionResumedAlwaysStoring ==
    /\ run.pc = "returned"
    /\ run.via = "executeAction"
    /\ run' = NoRun
    /\ calls' = <<>>
    /\ undoStore' = [undoStore EXCEPT ![run.undoToken] =
              FilterUndoData(actionOf(run.fn), run.email,
                             run.result.metadata.filterId, now)]
    /\ lastResult' =
         IF run.result.success /\ run.result.undoToken
         THEN EngineActionResult(TRUE, actionOf(run.fn), run.undoToken,
                                 run.undoExpiry, run.result.metadata)
         ELSE EngineActionResult(FALSE, actionOf(run.fn), 0, -1, run.result.metadata)
    /\ UNCHANGED <<now, nextToken, trashed, pendingExec, pendingUndo, origin,
                   reversed, detection>>
    /\ UNCHANGED bufferVars

\* executeAction after its await of executeUnsubscribe, blockSender or
\* nukeDomain; the engine's call is over
executeActionResumed ==
    /\ run.pc = "returned"
    /\ run.via = "executeAction"
    /\ run' = NoRun
    /\ calls' = <<>>
    /\ IF run.fn = "executeUnsubscribe"
       THEN IF run.result.success /\ run.result.undoToken
            THEN /\ undoStore' = [undoStore EXCEPT ![run.undoToken] =
                        UndoData("unsubscribe", run.email, now)]
                 /\ lastResult' = EngineActionResult(TRUE, "unsubscribe",
                        run.undoToken, run.undoExpiry, run.result.metadata)
            ELSE /\ lastResult' = EngineActionResult(FALSE, "unsubscribe", 0, -1,
                        run.result.metadata)
                 /\ UNCHANGED undoStore
       ELSE IF run.result.success
            THEN /\ undoStore' = [undoStore EXCEPT ![run.undoToken] =
                        FilterUndoData(actionOf(run.fn), run.email,
                                       run.result.metadata.filterId, now)]
                 /\ lastResult' = EngineActionResult(TRUE, actionOf(run.fn),
                        run.undoToken, run.undoExpiry, run.result.metadata)
            ELSE /\ lastResult' = EngineActionResult(FALSE, actionOf(run.fn), 0, -1,
                        run.result.metadata)
                 /\ UNCHANGED undoStore
    /\ UNCHANGED <<now, nextToken, trashed, pendingExec, pendingUndo, origin,
                   reversed, detection>>
    /\ UNCHANGED bufferVars

\* deleteFilter returned `success` to the i-th undoAction call in flight
deleteFilterReturned(i, success) ==
    /\ i \in DOMAIN pendingUndo
    /\ pendingUndo[i].providerCall = "deleteFilter"
    /\ LET c == pendingUndo[i]
       IN  /\ pendingUndo' = Remove(pendingUndo, i)
           /\ IF success
              THEN /\ undoStore' = [undoStore EXCEPT ![c.token] = NoRecord]
                   /\ lastResult' = UndoResult(c.token, TRUE, "none")
                   /\ reversed' = reversed \cup {c.token}
              ELSE /\ lastResult' = UndoResult(c.token, FALSE, "Failed to delete filter")
                   /\ UNCHANGED <<undoStore, reversed>>
    /\ UNCHANGED <<now, nextToken, trashed, pendingExec, origin>>
    /\ UNCHANGED bufferVars
    /\ UNCHANGED engineVars

\* the sets the engines' inputs are drawn from
OptionSets ==
    {Options(c, m, b, s) : c \in BOOLEAN, m \in BOOLEAN, b \in BOOLEAN, s \in BOOLEAN}

ExecuteUnsubscribe ==
    \E email \in EmailIds : \E options \in OptionSets : executeUnsubscribe(email, options)

HttpGetReturned == \E status \in HttpOutcomes : httpGetReturned(status)

HttpPostReturned == \E status \in HttpOutcomes : httpPostReturned(status)

SendMailtoReturned == \E success \in BOOLEAN : sendMailtoReturned(success)

CreateBlockFilterReturned == \E success \in BOOLEAN : createBlockFilterReturned(success)

MarkAsSpamReturned == \E success \in BOOLEAN : markAsSpamReturned(success)

BlockSender == \E email \in EmailIds : blockSender(email)

CreateFilterReturned ==
    \E success \in BOOLEAN : \E filterId \in FilterIds :
        createFilterReturned(success, filterId)

GetEmailsFromSenderReturned == \E n \in Counts : getEmailsFromSenderReturned(n)

BlockDeleteReturned == \E deleteSuccess \in BOOLEAN : blockDeleteReturned(deleteSuccess)

DomainNuke ==
    \E domain \in NukeDomains : \E confirmCaution \in BOOLEAN :
        domainNuke(domain, confirmCaution)

GetSendersFromDomainReturned == \E n \in Counts : getSendersFromDomainReturned(n)

GetEmailsFromDomainReturned == \E n \in Counts : getEmailsFromDomainReturned(n)

NukeDeleteReturned == \E deleteSuccess \in BOOLEAN : nukeDeleteReturned(deleteSuccess)

CreateDomainFilterReturned ==
    \E success \in BOOLEAN : \E filterId \in FilterIds :
        createDomainFilterReturned(success, filterId)

\* the emails executeAction is called on
OrchestratedEmails == {1, 3, 4, 5}

ExecuteActionUnsubscribe == \E email \in OrchestratedEmails : executeActionUnsubscribe(email)

ExecuteActionBlock == \E email \in OrchestratedEmails : executeActionBlock(email)

ExecuteActionNuke ==
    \E email \in OrchestratedEmails : \E domain \in {<<>>, inbox[3].senderDomain} :
        \E confirmDomainNuke \in BOOLEAN : executeActionNuke(email, domain, confirmDomainNuke)

DeleteFilterReturned ==
    \E i \in 1 .. MaxCalls : \E success \in BOOLEAN : deleteFilterReturned(i, success)

\* the engines called directly, one call at a time
EngineNext ==
    \/ ExecuteUnsubscribe
    \/ HttpGetReturned
    \/ HttpPostReturned
    \/ retryTimerFired
    \/ SendMailtoReturned
    \/ CreateBlockFilterReturned
    \/ MarkAsSpamReturned
    \/ BlockSender
    \/ CreateFilterReturned
    \/ GetEmailsFromSenderReturned
    \/ getEmailsFromSenderThrew
    \/ BlockDeleteReturned
    \/ DomainNuke
    \/ GetSendersFromDomainReturned
    \/ GetEmailsFromDomainReturned
    \/ getEmailsFromDomainThrew
    \/ NukeDeleteReturned
    \/ CreateDomainFilterReturned

\* executeAction("delete") and executeAction("keep") while calls are left
OrchestratedDelete == nextToken <= MaxActions /\ ExecuteDelete

OrchestratedKeep == nextToken <= MaxActions /\ ExecuteKeep

\* the undo window passes between two handlers
WindowPasses == tick(undoWindowMs + 1)

\* executeAction of every kind and undoAction, one engine call at a time
OrchestratorNext ==
    \/ OrchestratedDelete
    \/ TrashEmailReturned
    \/ OrchestratedKeep
    \/ ExecuteActionUnsubscribe
    \/ ExecuteActionBlock
    \/ ExecuteActionNuke
    \/ HttpGetReturned
    \/ HttpPostReturned
    \/ retryTimerFired
    \/ CreateBlockFilterReturned
    \/ MarkAsSpamReturned
    \/ CreateFilterReturned
    \/ GetEmailsFromSenderReturned
    \/ getEmailsFromSenderThrew
    \/ BlockDeleteReturned
    \/ GetSendersFromDomainReturned
    \/ GetEmailsFromDomainReturned
    \/ getEmailsFromDomainThrew
    \/ NukeDeleteReturned
    \/ CreateDomainFilterReturned
    \/ executeActionResumed
    \/ UndoAction
    \/ UntrashEmailReturned
    \/ DeleteFilterReturned
    \/ WindowPasses

\* ---------------------------------------------------------- specifications
\* a buffer constructed from one of the initial queues, and the module-level
\* state of actions.ts as loaded
Init ==
    /\ fullQueue \in InitialQueues
    /\ activeWindow = syncWindow(fullQueue)
    /\ isFetching = FALSE
    /\ call = "none"
    /\ outstanding = 0
    /\ settled = "none"
    /\ added = <<>>
    /\ skipped = FALSE
    /\ undoStore = [t \in Tokens |-> NoRecord]
    /\ now = 0
    /\ nextToken = 1
    /\ trashed = {}
    /\ pendingExec = <<>>
    /\ pendingUndo = <<>>
    /\ lastResult = NoResult
    /\ origin = [t \in Tokens |-> 0]
    /\ reversed = {}
    /\ run = NoRun
    /\ calls = <<>>
    /\ detection = NoDetection

\* the same, with the buffer constructed from the empty queue
ActionInit ==
    /\ fullQueue = <<>>
    /\ activeWindow = syncWindow(fullQueue)
    /\ isFetching = FALSE
    /\ call = "none"
    /\ outstanding = 0
    /\ settled = "none"
    /\ added = <<>>
    /\ skipped = FALSE
    /\ undoStore = [t \in Tokens |-> NoRecord]
    /\ now = 0
    /\ nextToken = 1
    /\ trashed = {}
    /\ pendingExec = <<>>
    /\ pendingUndo = <<>>
    /\ lastResult = NoResult
    /\ origin = [t \in Tokens |-> 0]
    /\ reversed = {}
    /\ run = NoRun
    /\ calls = <<>>
    /\ detection = NoDetection

\* the buffer's operations; the action engine is not called
BufferSpec == Init /\ [][BufferNext]_vars

\* the action engine's operations; the buffer is not called
ActionSpec == ActionInit /\ [][ActionNext]_vars

\* a buffer constructed from one of the two short initial queues
BufferLiveInit ==
    /\ fullQueue \in {<<>>, <<1, 6, 7>>}
    /\ activeWindow = syncWindow(fullQueue)
    /\ isFetching = FALSE
    /\ call = "none"
    /\ outstanding = 0
    /\ settled = "none"
    /\ added = <<>>
    /\ skipped = FALSE
    /\ undoStore = [t \in Tokens |-> NoRecord]
    /\ now = 0
    /\ nextToken = 1
    /\ trashed = {}
    /\ pendingExec = <<>>
    /\ pendingUndo = <<>>
    /\ lastResult = NoResult
    /\ origin = [t \in Tokens |-> 0]
    /\ reversed = {}
    /\ run = NoRun
    /\ calls = <<>>
    /\ detection = NoDetection

\* the buffer's operations where every invocation of the refill callback
\* settles and the continuation of the call that awaits it runs
BufferLiveSpec ==
    /\ BufferLiveInit
    /\ [][BufferNext]_vars
    /\ WF_vars(RefillResolved \/ refillRejected)
    /\ WF_vars(consumeResumed)
    /\ WF_vars(consumeThrew)

\* buffers constructed anew from the arrays and window sizes above
GroupingSpec == ActionInit /\ [][Construct]_vars

\* the state as loaded, with the arguments of a batchDetectNewsletters call
\* that has not returned
ClassifierInit ==
    /\ fullQueue = <<>>
    /\ activeWindow = syncWindow(fullQueue)
    /\ isFetching = FALSE
    /\ call = "none"
    /\ outstanding = 0
    /\ settled = "none"
    /\ added = <<>>
    /\ skipped = FALSE
    /\ undoStore = [t \in Tokens |-> NoRecord]
    /\ now = 0
    /\ nextToken = 1
    /\ trashed = {}
    /\ pendingExec = <<>>
    /\ pendingUndo = <<>>
    /\ lastResult = NoResult
    /\ origin = [t \in Tokens |-> 0]
    /\ reversed = {}
    /\ run = NoRun
    /\ calls = <<>>
    /\ detection \in {[emails |-> emails, senderStats |-> senderStats,
                        results |-> <<>>] :
                          emails \in Batches \cup ExampleBatches,
                          senderStats \in StatsSets}

\* batchDetectNewsletters called on the batches above
ClassifierSpec == ClassifierInit /\ [][batchDetectNewsletters]_vars

\* executeUnsubscribe, blockSender and nukeDomain called directly
EngineSpec == ActionInit /\ [][EngineNext]_vars

\* executeAction of every kind, with the engines it calls, and undoAction
OrchestratorSpec == ActionInit /\ [][OrchestratorNext]_vars

\* ------------------------------------------------------------ the buffer's claims
\* no consume call is suspended and no continuation is about to run
Idle == call \in {"none", "resolved", "rejected"}

\* the grouping algorithm applied to the first windowSize entries of the queue
GroupedProjection == groupIntoBosses(Take(fullQueue, WindowSize))

DistinctIds(q) == \A i, j \in DOMAIN q : q[i] = q[j] => i = j

\* a BufferItem stands for its representative, or for its whole domain
Covers(item, e) ==
    IF item.isBossField THEN senderDomain(e) = senderDomain(item.email)
    ELSE e = item.email

CountOf(item) == IF item.isBossField THEN item.groupCount ELSE 1

RECURSIVE SumCounts(_)
SumCounts(w) == IF w = <<>> THEN 0 ELSE CountOf(Head(w)) + SumCounts(Tail(w))

\* C1: single-flight refill: never are two invocations of the refill callback
\* outstanding for one buffer; a consume call issued while a refill is pending
\* invokes the callback no second time, however low it leaves the window.
C1_SingleFlight == outstanding <= 1

\* a second consume call left the window at or below triggerThreshold while
\* the refill of a first one was pending, and one invocation is outstanding
C1_Witness ==
    /\ call = "suspended"
    /\ skipped
    /\ outstanding = 1
    /\ Len(activeWindow) <= TriggerThreshold

C3_WindowPartitionsSlice ==
    (Idle /\ DistinctIds(fullQueue)) =>
        LET slice == Take(fullQueue, WindowSize)
        IN  /\ \A k \in DOMAIN activeWindow : activeWindow[k].email \in Range(slice)
            /\ \A i \in DOMAIN slice :
                   Cardinality({k \in DOMAIN activeWindow :
                                    Covers(activeWindow[k], slice[i])}) = 1
            /\ SumCounts(activeWindow) =
                   (IF Len(fullQueue) < WindowSize THEN Len(fullQueue) ELSE WindowSize)

\* after a refill, a window of a collapsed group, cut from a longer queue of
\* distinct ids
C3_Witness ==
    /\ call = "resolved"
    /\ DistinctIds(fullQueue)
    /\ Len(fullQueue) > WindowSize
    /\ \E k \in DOMAIN activeWindow : activeWindow[k].isBossField

\* C4: in every reachable state activeWindow holds at most windowSize
\* BufferItems.
C4_WindowAtMostWindowSize == Len(activeWindow) <= WindowSize

\* after a refill, a full window of singletons cut from a longer queue
C4_Witness ==
    /\ call = "resolved"
    /\ Len(activeWindow) = WindowSize
    /\ Len(fullQueue) > WindowSize

\* C5: the in-flight flag is true exactly while one invocation of the refill
\* callback is outstanding, whether it then resolves or rejects.
C5_FetchingIffOutstanding == isFetching <=> (outstanding = 1)

\* the callback rejected and the flag is down again
C5_Witness ==
    /\ settled = "rejected"
    /\ ~isFetching
    /\ outstanding = 0

\* C6: a rejection of the refill callback is swallowed: the consume call that
\* issued the refill resolves normally, never rejects.
C6_RefillFailureSwallowed == call # "rejected"

\* C7: a consume call that issued a refill resolves only once the refill
\* callback has resolved, and when it resolves activeWindow is the grouping of
\* a fullQueue that holds the items the refill appended.
C7_ConsumeAwaitsRefill ==
    /\ [](call = "resolved" => (settled = "resolved" /\ outstanding = 0))
    /\ [][(call # "resolved" /\ call' = "resolved") =>
            /\ activeWindow' = groupIntoBosses(Take(fullQueue', WindowSize))
            /\ Range(added') \subseteq Range(fullQueue')]_vars

\* the call resolved after a refill that appended items, which the window shows
C7_Witness ==
    /\ call = "resolved"
    /\ settled = "resolved"
    /\ added # <<>>
    /\ Len(fullQueue) <= WindowSize
    /\ \E k \in DOMAIN activeWindow : activeWindow[k].email \in Range(added)

\* the cached window after the ids are removed from it
CachedWindowWithout(ids) ==
    LET Kept(item) == item.email \notin ids
    IN  SelectSeq(activeWindow, Kept)

\* C8: a consume call invokes the refill callback if and only if, the ids
\* removed, the cached activeWindow holds at most triggerThreshold entries and
\* no refill is in flight; it invokes it at most once.
C8_RefillIffLowAndNotFetching ==
    [][\A ids \in BatchArgs \cup {{id} : id \in Ids} :
          consume(ids) =>
              /\ (outstanding' = outstanding + 1) <=>
                     (Len(CachedWindowWithout(ids)) <= TriggerThreshold /\ ~isFetching)
              /\ outstanding' \in {outstanding, outstanding + 1}]_vars

\* a refill was issued with the cached window exactly at the threshold
C8_Witness ==
    /\ call = "suspended"
    /\ ~skipped
    /\ outstanding = 1
    /\ Len(activeWindow) = TriggerThreshold
    /\ activeWindow # GroupedProjection

\* C9: when a refill completes, the returned items whose id is in fullQueue at
\* that moment are discarded, the others are appended at the tail in the order
\* returned, and the entries already there keep their order before them.
C9_RefillAppendsUnseen ==
    [][\A newItems \in RefillBatches :
          refillResolved(newItems) =>
              LET Unseen(id) == id \notin Range(fullQueue)
              IN  fullQueue' = fullQueue \o SelectSeq(newItems, Unseen)]_vars

\* of the batch <<7, 1>>, 1 was in the queue and 7 alone was appended
C9_Witness ==
    /\ call = "resuming"
    /\ added = <<7>>
    /\ 1 \in Range(fullQueue)
    /\ fullQueue[Len(fullQueue)] = 7

\* ------------------------------------------------------ the action engine's claims
NotFound(token) == UndoResult(token, FALSE, "Undo token not found or expired")

\* C10: undo round trip for delete.  After a successful executeAction("delete"),
\* an undoAction on its token within the window issues the untrash call for
\* the item's provider id; when that call succeeds undoAction returns success,
\* the record is gone from the undo table and the item is out of the trash; an
\* undoAction on a token already reversed fails with not-found and issues no
\* provider call.
C10_DeleteUndoRoundTrip ==
    /\ [][\A token \in Tokens :
            (/\ undoAction(token)
             /\ undoStore[token].action = "delete"
             /\ now - undoStore[token].timestamp <= undoWindowMs) =>
                /\ Len(pendingUndo') = Len(pendingUndo) + 1
                /\ pendingUndo'[Len(pendingUndo')].providerCall = "untrash"
                /\ pendingUndo'[Len(pendingUndo')].providerId = origin[token]
                /\ origin[token] \in ActionEmails]_vars
    /\ [][\A i \in 1 .. MaxCalls :
            untrashEmailReturned(i, TRUE) =>
                /\ lastResult' = UndoResult(pendingUndo[i].token, TRUE, "none")
                /\ undoStore'[pendingUndo[i].token] = NoRecord
                /\ pendingUndo[i].providerId \notin trashed']_vars
    /\ [][\A token \in reversed :
            undoAction(token) =>
                /\ lastResult' = NotFound(token)
                /\ pendingUndo' = pendingUndo
                /\ trashed' = trashed]_vars

\* a delete was reversed, and a second undoAction on its token was refused
C10_Witness ==
    \E token \in reversed :
        /\ lastResult = NotFound(token)
        /\ undoStore[token] = NoRecord
        /\ origin[token] \in ActionEmails
        /\ origin[token] \notin trashed
        /\ pendingUndo = <<>>

\* C11: undo expiry.  An undoAction on a token whose record is still in the
\* undo table, issued when now - record.timestamp > undoWindowMs, fails with
\* "Undo window has expired", issues no provider call and evicts the record;
\* a token whose record is gone never gets a record again, and an undoAction
\* on it fails with not-found.
C11_ExpiredUndoEvicts ==
    /\ [][\A token \in Tokens :
            (/\ undoAction(token)
             /\ undoStore[token] # NoRecord
             /\ now - undoStore[token].timestamp > undoWindowMs) =>
                /\ lastResult' = UndoResult(token, FALSE, "Undo window has expired")
                /\ pendingUndo' = pendingUndo
                /\ trashed' = trashed
                /\ undoStore'[token] = NoRecord
                /\ token < nextToken'
                /\ \A i \in DOMAIN pendingExec' : pendingExec'[i].undoToken # token]_vars
    /\ [][\A token \in Tokens :
            (/\ undoStore[token] = NoRecord
             /\ token < nextToken
             /\ \A i \in DOMAIN pendingExec : pendingExec[i].undoToken # token) =>
                /\ undoStore'[token] = NoRecord
                /\ \A i \in DOMAIN pendingExec' : pendingExec'[i].undoToken # token
                /\ undoAction(token) =>
                       /\ lastResult' = NotFound(token)
                       /\ pendingUndo' = pendingUndo]_vars

\* an undoAction came after the window of a delete and evicted its record
C11_Witness ==
    \E token \in Tokens :
        /\ lastResult = UndoResult(token, FALSE, "Undo window has expired")
        /\ undoStore[token] = NoRecord
        /\ origin[token] \in trashed
        /\ now > undoWindowMs
        /\ pendingUndo = <<>>

\* ------------------------------------------------ the orchestrator's claims
\* executeAction returned success with this token, nothing returned since,
\* and the expiry it reported has not passed
JustReturned(token) ==
    /\ lastResult.op = "executeAction"
    /\ lastResult.success
    /\ lastResult.undoToken = token
    /\ now <= lastResult.undoExpiry

\* C12: for every action kind, a token returned by a successful executeAction
\* is backed by an undo record from the moment the call returns: an undoAction
\* on it within the undo window does not fail with not-found, and for keep and
\* unsubscribe it returns success without a provider call.
C12_ReturnedTokenIsBacked ==
    /\ [](\A token \in Tokens : JustReturned(token) => undoStore[token] # NoRecord)
    /\ [][\A token \in Tokens :
            (JustReturned(token) /\ undoAction(token)) =>
                /\ lastResult' # NotFound(token)
                /\ lastResult.action \in {"keep", "unsubscribe"} =>
                       /\ lastResult' = UndoResult(token, TRUE, "none")
                       /\ pendingUndo' = pendingUndo]_vars

\* the same for the kinds that store a record: every kind but keep
C12_StoringKindsAreBacked ==
    /\ [](\A token \in Tokens :
            (JustReturned(token) /\ lastResult.action # "keep") =>
                undoStore[token] # NoRecord)
    /\ [][\A token \in Tokens :
            (JustReturned(token) /\ lastResult.action # "keep" /\ undoAction(token)) =>
                /\ lastResult' # NotFound(token)
                /\ lastResult.action = "unsubscribe" =>
                       /\ lastResult' = UndoResult(token, TRUE, "none")
                       /\ pendingUndo' = pendingUndo]_vars

\* a step in which an executeAction call returns
ExecuteActionReturns ==
    \/ TrashEmailReturned
    \/ OrchestratedKeep
    \/ executeActionResumed

\* C13: the result of executeAction, for every action kind and every outcome
\* of the provider calls, has undoToken and undoExpiry both non-null when
\* success is true and both null when success is false; a call that returns
\* success = false leaves the undo table unchanged.
C13_TokenAndExpiryFollowSuccess ==
    /\ [](lastResult.op = "executeAction" =>
            /\ lastResult.success => (lastResult.undoToken # 0 /\ lastResult.undoExpiry # -1)
            /\ ~lastResult.success => (lastResult.undoToken = 0 /\ lastResult.undoExpiry = -1))
    /\ [][(ExecuteActionReturns /\ ~lastResult'.success) => undoStore' = undoStore]_vars

\* a block was refused by its filter creation: executeAction returned failure
\* with no token, and the table holds no record
C13_Witness ==
    /\ lastResult.op = "executeAction"
    /\ lastResult.action = "block"
    /\ ~lastResult.success
    /\ lastResult.undoToken = 0
    /\ origin[1] = 1
    /\ \A token \in Tokens : undoStore[token] = NoRecord

\* ------------------------------------------------------ the engines' claims
\* the capability, or the function, whose invocation is the attempt of a stage
StageCall ==
    [http |-> "httpUnsubscribe", mailto |-> "sendMailto",
     block |-> "createBlockFilter", spam |-> "markAsSpam"]

\* the stages attempted so far by the call in progress, in the order of
\* their attempts
RECURSIVE AttemptsIn(_)
AttemptsIn(log) ==
    IF log = <<>> THEN <<>>
    ELSE LET rest == AttemptsIn(SubSeq(log, 1, Len(log) - 1))
             last == log[Len(log)]
         IN  IF \E k \in DOMAIN Stages : StageCall[Stages[k]] = last
             THEN Append(rest, CHOOSE k \in DOMAIN Stages : StageCall[Stages[k]] = last)
             ELSE rest

\* stage k is open to the call r: the item has the descriptor and the caller
\* gave the capability
StageOpen(r, k) ==
    CASE k = 1 -> inbox[r.email].listUnsubscribe.http # <<>>
      [] k = 2 -> inbox[r.email].listUnsubscribe.mailto # "" /\ r.options.sendMailto
      [] k = 3 -> r.options.createBlockFilter
      [] k = 4 -> r.options.markAsSpam

\* the stage whose attempt ended as the step says: success, or not
StageSucceeded(k) ==
    CASE k = 1 -> \E status \in {200, 204} : httpGetReturned(status) \/ httpPostReturned(status)
      [] k = 2 -> sendMailtoReturned(TRUE)
      [] k = 3 -> createBlockFilterReturned(TRUE)
      [] k = 4 -> markAsSpamReturned(TRUE)

\* C14: executeUnsubscribe attempts its stages in the order HTTP, mailto,
\* block filter, spam mark; a stage is attempted only if it is available and
\* every earlier stage was unavailable or was attempted and failed; the step in
\* which a stage succeeds returns at once, so no later capability is invoked;
\* the result's method names the stage that succeeded and fallbackUsed is true
\* exactly for block and spam.
C14_StagesInOrder ==
    /\ [](run.fn = "executeUnsubscribe" =>
            LET attempts == AttemptsIn(calls)
            IN  /\ \A i, j \in DOMAIN attempts : i < j => attempts[i] < attempts[j]
                /\ \A i \in DOMAIN attempts :
                      /\ StageOpen(run, attempts[i])
                      /\ \A k \in 1 .. attempts[i] - 1 :
                            StageOpen(run, k) => \E j \in 1 .. i - 1 : attempts[j] = k
                /\ (run.pc = "returned" /\ run.result.success) =>
                      /\ attempts # <<>>
                      /\ run.result.method = Stages[attempts[Len(attempts)]]
                      /\ run.result.fallbackUsed = (run.result.method \in {"block", "spam"})
                      /\ run.result.undoToken)
    /\ [][\A k \in DOMAIN Stages :
            StageSucceeded(k) =>
                /\ run'.pc = "returned"
                /\ run'.result.success
                /\ run'.result.method = Stages[k]
                /\ calls' = calls]_vars

\* the block filter succeeded after the HTTP request and the mail had failed;
\* the spam mark, which the caller also gave, was not invoked
C14_Witness ==
    /\ run.fn = "executeUnsubscribe"
    /\ run.pc = "returned"
    /\ run.result.success
    /\ run.result.method = "block"
    /\ run.result.fallbackUsed
    /\ run.options.markAsSpam
    /\ AttemptsIn(calls) = <<1, 2, 3>>

\* the call returned is executeUnsubscribe on an item that passes the sender
\* gate and has a suspicious HTTPS link and no mailto address, made with no
\* block-filter capability and with a spam-mark capability that did not fail
SuspiciousLinkOnlyCase ==
    /\ run.fn = "executeUnsubscribe"
    /\ run.pc = "returned"
    /\ ~isLikelyPersonalSender(inbox[run.email])
    /\ ~isTransactional(inbox[run.email])
    /\ getDomainSafetyCategory(inbox[run.email].senderDomain) # "never_nuke"
    /\ isHttps(inbox[run.email].listUnsubscribe.http)
    /\ isSuspiciousLink(inbox[run.email].listUnsubscribe.http)
    /\ inbox[run.email].listUnsubscribe.mailto = ""
    /\ ~run.options.createBlockFilter
    /\ run.options.markAsSpam
    /\ ~("markAsSpam" \in Range(calls) /\ ~run.result.success)

EndedInSpam ==
    /\ run.result.success
    /\ run.result.method = "spam"
    /\ run.result.fallbackUsed

\* C15 as stated: in that case executeUnsubscribe ends with success = true,
\* method = "spam" and fallbackUsed = true.
C15_SuspiciousLinkEndsInSpam == SuspiciousLinkOnlyCase => EndedInSpam

\* C15: in that case, when the caller set the confirmation flag and the
\* request to the link did not succeed (neither the attempt nor its retry),
\* executeUnsubscribe ends with success = true, method = "spam" and
\* fallbackUsed = true; the spam mark is the only capability it invoked.
C15_ConfirmedSuspiciousLinkEndsInSpam ==
    (/\ SuspiciousLinkOnlyCase
     /\ run.options.confirm
     /\ ~(run.result.success /\ run.result.method = "http")) =>
        /\ EndedInSpam
        /\ AttemptsIn(calls) = <<1, 4>>

\* the link was requested twice in vain and the item was marked as spam
C15_Witness ==
    /\ SuspiciousLinkOnlyCase
    /\ run.options.confirm
    /\ EndedInSpam
    /\ calls = <<"httpUnsubscribe", "GET", "GET", "markAsSpam">>

\* the sender gate denies the item: it is personal, transactional, or from a
\* never-tier domain
SenderDenied(email) ==
    \/ isLikelyPersonalSender(inbox[email])
    \/ isTransactional(inbox[email])
    \/ getDomainSafetyCategory(inbox[email].senderDomain) = "never_nuke"

\* the safety gate denies the engine call r
GateDenies(r) ==
    \/ r.fn \in {"executeUnsubscribe", "blockSender"} /\ SenderDenied(r.email)
    \/ r.fn = "nukeDomain" /\ getDomainSafetyCategory(r.domain) = "never_nuke"

\* C16: when the safety gate denies an unsubscribe, a block or a nuke, the
\* engine invokes nothing at all (no request, no mail, no filter, no
\* enumeration, no bulk move-to-trash, no spam mark) and returns success =
\* false with no undo token; it never awaits.
C16_DeniedActionCallsNothing ==
    GateDenies(run) =>
        /\ calls = <<>>
        /\ run.pc = "returned"
        /\ ~run.result.success
        /\ ~run.result.undoToken

\* a block of a personal sender was refused with nothing invoked
C16_Witness ==
    /\ run.fn = "blockSender"
    /\ isLikelyPersonalSender(inbox[run.email])
    /\ run.pc = "returned"
    /\ ~run.result.success
    /\ calls = <<>>

\* the gate lets the call r through only with the confirmation flag, and the
\* caller did not set it
ConfirmationMissing(r) ==
    /\ ~GateDenies(r)
    /\ ~r.options.confirm
    /\ \/ /\ r.fn = "executeUnsubscribe"
          /\ \/ isSuspiciousLink(inbox[r.email].listUnsubscribe.http)
             \/ getDomainSafetyCategory(inbox[r.email].senderDomain) = "caution"
       \/ /\ r.fn = "nukeDomain"
          /\ getDomainSafetyCategory(r.domain) = "caution"

\* C17: when unsubscribe or nuke is invoked without the confirmation flag on
\* a suspicious link or a caution-tier domain, the result returned carries the
\* requires-confirmation signal, which no denial and no provider failure
\* carries.
C17_ConfirmationIsSignalled ==
    /\ ConfirmationMissing(run) =>
          /\ run.pc = "returned"
          /\ ~run.result.success
          /\ run.result.metadata.requiresConfirmation
    /\ (run.pc = "returned" /\ run.result.metadata.requiresConfirmation) =>
          ConfirmationMissing(run)

\* the part of C17 that executeUnsubscribe keeps
C17_UnsubscribeConfirmationIsSignalled ==
    /\ (run.fn = "executeUnsubscribe" /\ ConfirmationMissing(run)) =>
          /\ run.pc = "returned"
          /\ ~run.result.success
          /\ run.result.metadata.requiresConfirmation
          /\ calls = <<>>
    /\ (run.pc = "returned" /\ run.result.metadata.requiresConfirmation) =>
          ConfirmationMissing(run)

\* C18: every policy denial is surfaced with its reason: the result of an
\* unsubscribe, a block or a nuke that the safety gate rejected contains the
\* reason the gate produced.
C18_DenialCarriesReason ==
    (run.pc = "returned" /\ GateDenies(run)) =>
        \/ run.result.metadata.error \in
              {"Cannot block personal senders", "Cannot block transactional senders",
               "Cannot block senders from protected domains",
               "This domain cannot be nuked (protected)"}
        \/ run.result.metadata.reason \in
              {"Cannot block personal senders", "Cannot block transactional senders",
               "Cannot block senders from protected domains",
               "This domain cannot be nuked (protected)"}

\* the part of C18 that executeUnsubscribe keeps
C18_UnsubscribeDenialCarriesReason ==
    (run.fn = "executeUnsubscribe" /\ run.pc = "returned" /\ GateDenies(run)) =>
        run.result.metadata.error = canBlockSender(inbox[run.email]).reason

\* the tier of a domain of NukeDomains, by its name
TierOf(domain) ==
    CASE domain = <<"mail", "chase", "com">> -> "never"
      [] domain = <<"EBAY", "COM">> -> "caution"
      [] domain = <<"substack", "com">> -> "free"
      [] domain = <<"news", "example", "org">> -> "unknown"

\* C19: the domain gate of nuke depends on the tier of the domain and on the
\* confirmation flag only: a never-tier domain is denied with or without the
\* flag, a caution-tier domain proceeds exactly when the flag is set, a free
\* or unknown domain proceeds without it.  To proceed is to go on to the
\* first provider call; to be refused is to return a failure with nothing
\* invoked.
C19_NukeGateByTier ==
    [][\A domain \in NukeDomains : \A confirmCaution \in BOOLEAN :
          domainNuke(domain, confirmCaution) =>
              IF \/ TierOf(domain) = "never"
                 \/ TierOf(domain) = "caution" /\ ~confirmCaution
              THEN /\ run'.pc = "returned"
                   /\ ~run'.result.success
                   /\ ~run'.result.undoToken
                   /\ calls' = <<>>
              ELSE /\ run'.pc = "getSendersFromDomain"
                   /\ calls' = <<"getSendersFromDomain">>]_vars

\* a confirmed nuke of a caution-tier domain went on to its provider calls
C19_Witness ==
    /\ run.fn = "nukeDomain"
    /\ TierOf(run.domain) = "caution"
    /\ run.options.confirm
    /\ run.pc = "createDomainFilter"
    /\ "getEmailsFromDomain" \in Range(calls)

\* the position of the first invocation of capability in log, 0 if none
FirstCall(log, capability) ==
    IF capability \in Range(log)
    THEN CHOOSE i \in DOMAIN log :
             /\ log[i] = capability
             /\ \A j \in 1 .. i - 1 : log[j] # capability
    ELSE 0

\* C20: in nuke, the bulk move-to-trash is attempted before the domain filter
\* is created, and its failure does not prevent the attempt to create the
\* filter; the success of the action is the success of the filter creation
\* alone: when the filter creation fails the action is reported failed, with no
\* undo token and no undo record, and reports the emails already deleted; when
\* it succeeds the action is reported successful, with its record, even when
\* the bulk delete failed.
C20_NukeSuccessIsFilterSuccess ==
    /\ []((run.fn = "nukeDomain" /\ "createDomainFilter" \in Range(calls)) =>
            /\ run.existing > 0 => "deleteEmails" \in Range(calls)
            /\ "deleteEmails" \in Range(calls) =>
                  FirstCall(calls, "deleteEmails") < FirstCall(calls, "createDomainFilter"))
    /\ [][\A deleteSuccess \in BOOLEAN :
            nukeDeleteReturned(deleteSuccess) =>
                /\ calls' = Append(calls, "createDomainFilter")
                /\ run'.pc = "createDomainFilter"
                /\ run'.emailsDeleted = IF deleteSuccess THEN run.existing ELSE 0]_vars
    /\ [][\A success \in BOOLEAN : \A filterId \in FilterIds :
            createDomainFilterReturned(success, filterId) =>
                /\ run'.pc = "returned"
                /\ run'.result.success = success
                /\ run'.result.undoToken = success
                /\ run'.result.metadata.emailsDeleted = run.emailsDeleted]_vars
    /\ [][(executeActionResumed /\ run.fn = "nukeDomain") =>
            /\ lastResult'.action = "nuke"
            /\ lastResult'.success = run.result.success
            /\ lastResult'.metadata.emailsDeleted = run.result.metadata.emailsDeleted
            /\ IF run.result.success
               THEN /\ lastResult'.undoToken = run.undoToken
                    /\ undoStore'[run.undoToken].action = "nuke"
               ELSE /\ lastResult'.undoToken = 0
                    /\ lastResult'.undoExpiry = -1
                    /\ undoStore' = undoStore]_vars

\* a nuke deleted the domain's emails, failed to create the filter and was
\* reported failed, with the deletions counted and no record stored
C20_Witness ==
    /\ lastResult.op = "executeAction"
    /\ lastResult.action = "nuke"
    /\ ~lastResult.success
    /\ lastResult.undoToken = 0
    /\ lastResult.metadata.emailsDeleted > 0
    /\ \A token \in Tokens : undoStore[token] = NoRecord

\* nukeDomain, called by executeAction, returned success after its bulk
\* delete had failed
C20_FilterAfterFailedDelete ==
    /\ run.fn = "nukeDomain"
    /\ run.via = "executeAction"
    /\ run.pc = "returned"
    /\ run.existing > 0
    /\ run.emailsDeleted = 0
    /\ run.result.success

\* C21: in block, the sender filter is created before any existing email is
\* enumerated or trashed; when the filter creation fails the action is reported
\* failed and neither the enumeration nor the bulk delete is invoked; when it
\* succeeds, every result the action reports is a success, whatever the bulk
\* delete returned, with emailsDeleted 0 after a failed bulk delete and the
\* number of enumerated emails after a successful one, and the undo record
\* holds the id of the created filter.
C21_BlockIsFilterFirst ==
    /\ [](run.fn = "blockSender" =>
            /\ \A i \in DOMAIN calls :
                  calls[i] \in {"getEmailsFromSender", "deleteEmails"} =>
                      /\ FirstCall(calls, "createFilter") \in 1 .. i - 1
                      /\ run.filterId \in FilterIds
            /\ (run.pc = "returned" /\ "getEmailsFromSender" \in Range(calls)) =>
                  /\ run.result.success
                  /\ run.result.metadata.filterId = run.filterId
            /\ (run.pc = "returned" /\ ~run.result.success) =>
                  Range(calls) \subseteq {"createFilter"})
    /\ [][\A filterId \in FilterIds :
            createFilterReturned(FALSE, filterId) =>
                /\ run'.pc = "returned"
                /\ ~run'.result.success
                /\ calls' = calls]_vars
    /\ [][\A filterId \in FilterIds :
            createFilterReturned(TRUE, filterId) =>
                /\ run'.pc = "getEmailsFromSender"
                /\ run'.filterId = filterId]_vars
    /\ [][\A deleteSuccess \in BOOLEAN :
            blockDeleteReturned(deleteSuccess) =>
                /\ run'.pc = "returned"
                /\ run'.result.success
                /\ run'.result.metadata.emailsDeleted =
                       IF deleteSuccess THEN run.existing ELSE 0]_vars
    /\ [][(executeActionResumed /\ run.fn = "blockSender") =>
            /\ lastResult'.action = "block"
            /\ lastResult'.success = run.result.success
            /\ lastResult'.metadata.emailsDeleted = run.result.metadata.emailsDeleted
            /\ IF run.result.success
               THEN /\ lastResult'.undoToken = run.undoToken
                    /\ undoStore'[run.undoToken].action = "block"
                    /\ undoStore'[run.undoToken].filterId = run.filterId
               ELSE undoStore' = undoStore]_vars

\* a block created filter 1 and was reported successful with no email
\* deleted; its record holds the filter's id
C21_Witness ==
    /\ lastResult.op = "executeAction"
    /\ lastResult.action = "block"
    /\ lastResult.success
    /\ lastResult.metadata.emailsDeleted = 0
    /\ lastResult.metadata.filterId = 1
    /\ undoStore[lastResult.undoToken].filterId = 1
    /\ run = NoRun

\* blockSender, called by executeAction, returned success after its bulk
\* delete had failed
C21_SuccessAfterFailedDelete ==
    /\ run.fn = "blockSender"
    /\ run.via = "executeAction"
    /\ run.pc = "returned"
    /\ "deleteEmails" \in Range(calls)
    /\ run.result.success
    /\ run.result.metadata.emailsDeleted = 0

\* how many times capability was invoked in log
Invocations(log, capability) ==
    Cardinality({i \in DOMAIN log : log[i] = capability})

\* the HTTP stage of the call in progress is awaiting a request or its timer
InHttpStage == run.pc \in {"http_get", "http_post", "http_wait"}

\* a step in which a request of the HTTP stage is answered with no success
\* and no POST follows
AttemptFailed ==
    \/ \E status \in HttpOutcomes \ {200, 204, 400, 405} : httpGetReturned(status)
    \/ \E status \in HttpOutcomes \ {200, 204} : httpPostReturned(status)

\* C22: the HTTP stage issues no request when the link is not HTTPS;
\* otherwise it retries the whole attempt exactly once after a failure: over
\* one executeUnsubscribe call at most two GET requests are issued, a POST
\* follows only a GET answered 400 or 405 and at most once per GET, a success
\* of any request ends the stage with success, the first failed attempt is
\* followed by the timer and a second GET, and the second failed attempt ends
\* the stage with failure.
C22_HttpStageRetriesOnce ==
    /\ [](run.fn = "executeUnsubscribe" =>
            /\ LET link == inbox[run.email].listUnsubscribe.http
               IN  (link = <<>> \/ link[1] # "https://") =>
                       Invocations(calls, "GET") + Invocations(calls, "POST") = 0
            /\ Invocations(calls, "GET") <= 2
            /\ \A i \in DOMAIN calls :
                  calls[i] = "POST" => (i > 1 /\ calls[i - 1] = "GET")
            /\ InHttpStage => Invocations(calls, "GET") = run.retryCount + 1)
    /\ [][\A status \in HttpOutcomes :
            httpGetReturned(status) =>
                /\ status \in {200, 204} =>
                      /\ run'.pc = "returned"
                      /\ run'.result.success
                      /\ run'.result.method = "http"
                      /\ calls' = calls
                /\ Invocations(calls', "POST") > Invocations(calls, "POST") <=>
                      status \in {400, 405}]_vars
    /\ [][\A status \in {200, 204} :
            httpPostReturned(status) =>
                /\ run'.pc = "returned"
                /\ run'.result.success
                /\ run'.result.method = "http"
                /\ calls' = calls]_vars
    /\ [][AttemptFailed =>
            IF run.retryCount = 0
            THEN run'.pc = "http_wait" /\ calls' = calls
            ELSE /\ ~InHttpStage'
                 /\ Invocations(calls', "GET") = 2
                 /\ run'.pc = "returned" => ~run'.result.success]_vars
    /\ [][retryTimerFired =>
            /\ run'.pc = "http_get"
            /\ calls' = Append(calls, "GET")
            /\ Invocations(calls', "GET") = 2]_vars

\* both attempts failed, the first with a POST after a GET answered 400 or
\* 405, and no later stage was open: the call returned failure after two GET
\* requests and one or two POST requests
C22_Witness ==
    /\ run.fn = "executeUnsubscribe"
    /\ run.pc = "returned"
    /\ ~run.result.success
    /\ Invocations(calls, "GET") = 2
    /\ Invocations(calls, "POST") >= 1
    /\ calls[Len(calls)] \in {"GET", "POST"}

\* the link is plain HTTP: the stage was attempted and ended with no
\* request, and the mail stage took over
C22_InsecureLinkIssuesNoRequest ==
    /\ run.fn = "executeUnsubscribe"
    /\ run.email = 7
    /\ "httpUnsubscribe" \in Range(calls)
    /\ run.pc = "mailto"
    /\ Invocations(calls, "GET") = 0

\* C23: every failure of the orchestrator is a returned value: for every
\* action kind and every behaviour of the provider capabilities, a capability
\* that rejects included, no executeAction call and no undoAction call ends by
\* throwing or rejecting.
C23_FailuresAreValueReturned ==
    run.via = "executeAction" => run.pc # "threw"

\* the same for the calls that enumerate nothing: executeAction("unsubscribe")
\* ends by returning
C23_UnsubscribeIsValueReturned ==
    (run.via = "executeAction" /\ run.fn = "executeUnsubscribe") => run.pc # "threw"

\* ------------------------------------------------------ the grouping's claims
\* the positions of the slice that hold an email of domain d
EntriesOf(slice, d) == {i \in DOMAIN slice : senderDomain(slice[i]) = d}

\* the positions of the window whose representative is of domain d
ItemsOf(w, d) == {k \in DOMAIN w : senderDomain(w[k].email) = d}

Least(S) == CHOOSE i \in S : \A j \in S : i <= j

\* the window w shows the slice as the threshold rule says: a domain of 5
\* entries or more as one collapsed item, its first entry the representative
\* and its count their number; a domain of fewer, each entry as a singleton of
\* its own
GroupedAtThreshold(slice, w) ==
    \A d \in Domains :
        LET entries == EntriesOf(slice, d)
            n == Cardinality(entries)
        IN  IF n >= 5
            THEN \E k \in DOMAIN w :
                    /\ ItemsOf(w, d) = {k}
                    /\ w[k].isBossField
                    /\ w[k].email = slice[Least(entries)]
                    /\ w[k].groupCount = n
            ELSE /\ Cardinality(ItemsOf(w, d)) = n
                 /\ \A k \in ItemsOf(w, d) : ~w[k].isBossField
                 /\ \A i \in entries : \E k \in ItemsOf(w, d) : w[k].email = slice[i]

\* C24 as stated: for every domain and every slice, repeated ids included,
\* the window of a buffer shows the first windowSize entries of its queue as
\* the threshold rule says.
C24_GroupingThreshold ==
    [][\A q \in ConstructQueues : \A windowSize \in ConstructWindowSizes :
          construct(q, windowSize) =>
              GroupedAtThreshold(Take(q, windowSize), activeWindow')]_vars

\* C24 as amended: the same for every slice of distinct ids; an id that
\* stands twice in a slice of fewer than 5 of its domain is shown once.
C24_GroupingThresholdOfDistinctIds ==
    [][\A q \in ConstructQueues : \A windowSize \in ConstructWindowSizes :
          (construct(q, windowSize) /\ DistinctIds(Take(q, windowSize))) =>
              GroupedAtThreshold(Take(q, windowSize), activeWindow')]_vars

\* 5 emails of one domain and 4 of another, interleaved: one collapsed item
\* of count 5 at the place of its first member, and 4 singletons
C24_Witness ==
    /\ fullQueue = <<1, 7, 2, 8, 3, 9, 4, 10, 11>>
    /\ activeWindow = <<Singleton(1), Boss(7, 5), Singleton(2), Singleton(3),
                        Singleton(4)>>

\* an id stands twice in the queue and once in the window
C24_RepeatedIdShownOnce ==
    /\ fullQueue = <<6, 6, 7>>
    /\ activeWindow = <<Singleton(6), Singleton(7)>>

\* C25 as stated: a buffer constructed with windowSize = 10 from 12 emails of
\* one domain shows a window of exactly one collapsed BufferItem whose count
\* is 12.
C25_TwelveCollapseToCountTwelve ==
    [][construct(TwelveOfOneDomain, 10) =>
          /\ Len(activeWindow') = 1
          /\ activeWindow'[1].isBossField
          /\ activeWindow'[1].groupCount = 12]_vars

\* C25 as amended: that buffer shows a window of exactly one collapsed
\* BufferItem, whose representative is the first email and whose count is 10,
\* the emails within the window; the two beyond it are not counted.
C25_TwelveCollapseToCountOfWindow ==
    [][construct(TwelveOfOneDomain, 10) =>
          /\ Len(activeWindow') = 1
          /\ activeWindow'[1].isBossField
          /\ activeWindow'[1].email = TwelveOfOneDomain[1]
          /\ activeWindow'[1].groupCount = 10
          /\ Len(fullQueue') = 12]_vars

\* the buffer of 12 emails of one domain, constructed with windowSize 10
C25_Witness ==
    /\ fullQueue = TwelveOfOneDomain
    /\ activeWindow = <<Boss(7, 10)>>

\* the positions of the slice the BufferItem stands for
CoveredBy(slice, item) == {i \in DOMAIN slice : Covers(item, slice[i])}

\* the BufferItems of w stand in the order of the first entries they cover
InOrderOfFirstMembers(slice, w) ==
    /\ \A k \in DOMAIN w : CoveredBy(slice, w[k]) # {}
    /\ \A k, l \in DOMAIN w :
          k < l => Least(CoveredBy(slice, w[k])) < Least(CoveredBy(slice, w[l]))

\* the head of w stands for the first entry of the slice
HeadCoversFirst(slice, w) == slice # <<>> => (w # <<>> /\ Covers(w[1], slice[1]))

C26_ConstructedWindowInOrder ==
    [][\A q \in ConstructQueues : \A windowSize \in ConstructWindowSizes :
          construct(q, windowSize) =>
              /\ InOrderOfFirstMembers(Take(q, windowSize), activeWindow')
              /\ HeadCoversFirst(Take(q, windowSize), activeWindow')]_vars

\* a collapsed group whose first member is the third entry stands third,
\* before the singleton of an entry that precedes its other members
C26_CollapsedGroupAtFirstMember ==
    /\ fullQueue = <<1, 2, 7, 8, 3, 9, 10, 11, 4>>
    /\ activeWindow = <<Singleton(1), Singleton(2), Boss(7, 5), Singleton(3),
                        Singleton(4)>>

\* ------------------------------------------------ the buffer's edits' claims
\* C27: addItem(item) with the default index inserts item at position 0 of
\* the queue, leaves every previous entry present and in the same order, and
\* recomputes the window before it returns, so that the head BufferItem of
\* activeWindow has item as its representative.
C27_AddItemGoesFirst ==
    [][\A email \in AddArgs :
          addItem(email, 0) =>
              /\ Len(fullQueue') = Len(fullQueue) + 1
              /\ fullQueue'[1] = email
              /\ \A i \in DOMAIN fullQueue : fullQueue'[i + 1] = fullQueue[i]
              /\ activeWindow' # <<>>
              /\ activeWindow'[1].email = email]_vars

\* an email consumed from the queue [1, 6, 7] was put back while the refill
\* its consumption issued was in flight: it is first in the queue and in the
\* window
C27_Witness ==
    /\ call = "suspended"
    /\ isFetching
    /\ fullQueue = <<1, 6, 7>>
    /\ activeWindow = <<Singleton(1), Singleton(6), Singleton(7)>>

\* C28: nukeDomain(domain) of the buffer removes from the queue every entry
\* of that domain and no other, keeps the remaining entries in their order,
\* issues no provider call and no refill, and recomputes the window before it
\* returns, so that no BufferItem of activeWindow is of that domain.
C28_NukeDomainEditsTheQueue ==
    [][\A domain \in Domains :
          nukeDomain(domain) =>
              /\ fullQueue' = SelectSeq(fullQueue, LAMBDA e : senderDomain(e) # domain)
              /\ \A k \in DOMAIN activeWindow' :
                    senderDomain(activeWindow'[k].email) # domain
              /\ outstanding' = outstanding
              /\ isFetching' = isFetching
              /\ pendingExec' = pendingExec
              /\ pendingUndo' = pendingUndo
              /\ trashed' = trashed
              /\ calls' = calls]_vars

\* the domain of the first email was removed from the queue [1, 6, 7]: two
\* entries are left, and no refill was issued for the short window
C28_Witness ==
    /\ call = "none"
    /\ outstanding = 0
    /\ ~isFetching
    /\ fullQueue = <<6, 7>>
    /\ activeWindow = <<Singleton(6), Singleton(7)>>

\* ------------------------------------------------------ the classifier's claims
\* the batch's email with the given id, and what the Map holds for it
Classified(id) ==
    detection.emails[CHOOSE i \in DOMAIN detection.emails : detection.emails[i].id = id]

HasDescriptor(email) ==
    email.listUnsubscribe.http # <<>> \/ email.listUnsubscribe.mailto # ""

\* C29: an email whose sender or subject matches a transactional marker is
\* classified "transactional" with confidence 0.9 (9000 ten-thousandths),
\* whatever its unsubscribe descriptor, labels, headers and sender statistics
\* are, and also when it matches the personal-sender pattern.
C29_TransactionalShortCircuits ==
    \A id \in DOMAIN detection.results :
        isTransactional(Classified(id)) =>
            /\ detection.results[id].type = "transactional"
            /\ detection.results[id].confidence = 9000

\* a person's email with a transactional subject, an unsubscribe link, the
\* promotions label, a newsletter header and sender statistics was classified
\* transactional
C29_Witness ==
    /\ detection.results # <<>>
    /\ isTransactional(Classified(1))
    /\ isLikelyPersonalSender(Classified(1))
    /\ HasDescriptor(Classified(1))
    /\ "CATEGORY_PROMOTIONS" \in Classified(1).labels
    /\ Classified(1).headers.precedence = "Bulk"
    /\ detection.senderStats = Stats(100, 100)
    /\ detection.results[1].type = "transactional"
    /\ detection.results[1].confidence = 9000

\* a person's email with no transactional marker is classified personal
C29_PersonalWithoutMarker ==
    /\ detection.results # <<>>
    /\ ~isTransactional(Classified(1))
    /\ isLikelyPersonalSender(Classified(1))
    /\ detection.results[1].type = "personal"
    /\ detection.results[1].confidence = 8000

\* C30: of two emails classified with the same sender statistics that are the
\* same but for the unsubscribe descriptor, which one has and the other has
\* not, the one with the descriptor has a confidence at least the other's.
C30_MonotonicInUnsubscribeSignal ==
    \A with \in DOMAIN detection.results, without \in DOMAIN detection.results :
        (/\ HasDescriptor(Classified(with))
         /\ ~HasDescriptor(Classified(without))
         /\ [Classified(with) EXCEPT
                !.id = without,
                !.listUnsubscribe = Classified(without).listUnsubscribe]
              = Classified(without))
            => detection.results[with].confidence
                   >= detection.results[without].confidence

\* a list's email with no label, header or statistics scores 0.125 without a
\* descriptor and 0.475 with an unsubscribe link
C30_Witness ==
    /\ detection.results # <<>>
    /\ detection.senderStats = NoStats
    /\ Classified(1).sender = <<"hello">>
    /\ Classified(1).subject = <<"weekly digest">>
    /\ Classified(1).labels = {"INBOX"}
    /\ Classified(1).headers = NoHeaders
    /\ Classified(1).listUnsubscribe = [http |-> CleanLink, mailto |-> ""]
    /\ ~HasDescriptor(Classified(2))
    /\ detection.results[1].confidence = 4750
    /\ detection.results[2].confidence = 1250
    /\ detection.results[1].type = "social"
    /\ detection.results[2].type = "unknown"

\* the highest score of the batches: a marketing platform's email with an
\* unsubscribe address, the promotions label, a newsletter header and full
\* statistics is a newsletter at 0.935
C30_HighestScore ==
    /\ detection.results # <<>>
    /\ detection.results[1].type = "newsletter"
    /\ detection.results[1].confidence = 9350
    /\ detection.results[1].signals.listUnsubscribe
    /\ detection.results[1].signals.headerSignals = 90

\* the emails the example is about: of a marketing platform's domain, with an
\* unsubscribe descriptor, caught by neither override
MarketingWithDescriptor(email) ==
    /\ \E d \in MARKETING_DOMAINS : includesDomain(lowerDomain(email.senderDomain), d)
    /\ HasDescriptor(email)
    /\ ~isTransactional(email)
    /\ ~isLikelyPersonalSender(email)

StrongCategory(email) ==
    "CATEGORY_PROMOTIONS" \in email.labels \/ "CATEGORY_SOCIAL" \in email.labels

\* C31 as stated: classified with no sender statistics, every such email is a
\* newsletter with confidence at least 0.75. Violated: without the promotions
\* or social label the score is 0.35 + 0.9 * 0.25 = 0.575 plus at most 0.1 for
\* the updates label and 0.045 for the headers, which is a promo.
C31_MarketingWithDescriptorIsNewsletter ==
    detection.senderStats = NoStats =>
        \A id \in DOMAIN detection.results :
            MarketingWithDescriptor(Classified(id)) =>
                /\ detection.results[id].type = "newsletter"
                /\ detection.results[id].confidence >= 7500

\* C31 (amended): classified with no sender statistics, an email of a marketing
\* platform's domain with an unsubscribe descriptor that neither override
\* catches has a confidence of at least 0.575; it is a newsletter with
\* confidence at least 0.75 when it has the promotions or the social label,
\* and a promo otherwise. A batch yields that result for each of its ids.
C31_MarketingWithDescriptorByCategory ==
    detection.senderStats = NoStats =>
        \A id \in DOMAIN detection.results :
            MarketingWithDescriptor(Classified(id)) =>
                /\ detection.results[id].confidence >= 5750
                /\ IF StrongCategory(Classified(id))
                   THEN /\ detection.results[id].type = "newsletter"
                        /\ detection.results[id].confidence >= 7500
                   ELSE /\ detection.results[id].type = "promo"
                        /\ detection.results[id].confidence < 7500

\* a batch of twelve such emails with the promotions label was classified
\* with no statistics: the Map holds a newsletter at 0.765 for each of the
\* twelve ids
C31_Witness ==
    /\ Len(detection.emails) = ExampleBatchSize
    /\ detection.senderStats = NoStats
    /\ DOMAIN detection.results = 1 .. ExampleBatchSize
    /\ \A id \in 1 .. ExampleBatchSize :
        /\ MarketingWithDescriptor(Classified(id))
        /\ StrongCategory(Classified(id))
        /\ Classified(id).headers = NoHeaders
        /\ detection.results[id].type = "newsletter"
        /\ detection.results[id].confidence = 7650

\* a batch of twelve such emails with no category label and no header was
\* classified with no statistics: each is a promo at 0.575
C31_TwelvePromos ==
    /\ Len(detection.emails) = ExampleBatchSize
    /\ detection.senderStats = NoStats
    /\ DOMAIN detection.results = 1 .. ExampleBatchSize
    /\ \A id \in 1 .. ExampleBatchSize :
        /\ MarketingWithDescriptor(Classified(id))
        /\ Classified(id).labels = {"INBOX"}
        /\ Classified(id).headers = NoHeaders
        /\ detection.results[id].type = "promo"
        /\ detection.results[id].confidence = 5750

\* the emails the weighted scoring classifies
Scored(email) == ~isTransactional(email) /\ ~isLikelyPersonalSender(email)

\* the weighted sum, in ten-thousandths, of an email with the given reputation
\* and frequency
WeightedSum(email, reputation, frequency) ==
    35 * (IF HasDescriptor(email) THEN 100 ELSE 0)
        + 25 * (IF reputation >= checkSenderDomain(email)
                THEN reputation
                ELSE checkSenderDomain(email))
        + 20 * checkProviderCategory(email)
        + 10 * frequency
        + 5 * analyzeHeaders(email)

\* the type the thresholds and the final label override give to a sum
TypeOfSum(s, email) ==
    IF s >= 7500 THEN "newsletter"
    ELSE IF s >= 5000 THEN "promo"
    ELSE IF s >= 3000 THEN "social"
    ELSE IF "CATEGORY_PROMOTIONS" \in email.labels THEN "promo"
    ELSE IF "CATEGORY_SOCIAL" \in email.labels THEN "social"
    ELSE "unknown"

\* the reputation and frequency of the statistics supplied, 0.5 and 0 when
\* none are
SuppliedReputation == IF detection.senderStats.present
                      THEN detection.senderStats.reputationScore
                      ELSE 50

SuppliedFrequency == IF detection.senderStats.present
                     THEN detection.senderStats.frequencyScore
                     ELSE 0

\* C32 as stated: an email that neither override catches gets the type of the
\* weighted sum s of its signals and the supplied statistics, by the
\* thresholds 0.75, 0.50 and 0.30 and the label override, and the confidence
\* s, which lies in [0,1]. Violated with a supplied reputation of 0, which
\* the code replaces by 0.5.
C32_TypeByWeightedSum ==
    \A id \in DOMAIN detection.results :
        Scored(Classified(id)) =>
            LET s == WeightedSum(Classified(id), SuppliedReputation, SuppliedFrequency)
            IN  /\ detection.results[id].type = TypeOfSum(s, Classified(id))
                /\ detection.results[id].confidence = s
                /\ s \in 0 .. 10000

\* the thresholds and the override are those of C32 when the sum is taken
\* with the reputation and frequency the result reports in its signals
C32_TypeByReportedSignals ==
    \A id \in DOMAIN detection.results :
        Scored(Classified(id)) =>
            LET s == WeightedSum(Classified(id),
                                 detection.results[id].signals.senderReputation,
                                 detection.results[id].signals.frequencyScore)
            IN  /\ detection.results[id].type = TypeOfSum(s, Classified(id))
                /\ detection.results[id].confidence = s
                /\ s \in 0 .. 10000

\* an email with a link and the updates label, classified with the supplied
\* statistics {0, 0}: the sum of C32 is 0.45, a social; the result is a promo
\* at 0.575
C32_PromoForSocial ==
    /\ detection.results # <<>>
    /\ detection.senderStats = Stats(0, 0)
    /\ Scored(Classified(1))
    /\ WeightedSum(Classified(1), 0, 0) = 4500
    /\ detection.results[1].type = "promo"
    /\ detection.results[1].confidence = 5750

\* C33 as stated: the statistics supplied are used as supplied, a reputation
\* of 0 included: an email that neither override catches is scored with the
\* supplied reputationScore and frequencyScore, and the result reports them.
\* Violated: a supplied reputationScore of 0 is scored, and reported, as 0.5.
C33_StatisticsUsedAsSupplied ==
    detection.senderStats.present =>
        \A id \in DOMAIN detection.results :
            Scored(Classified(id)) =>
                /\ detection.results[id].signals.senderReputation
                       = detection.senderStats.reputationScore
                /\ detection.results[id].signals.frequencyScore
                       = detection.senderStats.frequencyScore

\* statistics with a reputation other than 0 are used as supplied, and the
\* defaults apply when none are supplied
C33_NonZeroStatisticsUsedAsSupplied ==
    \A id \in DOMAIN detection.results :
        (Scored(Classified(id))
            /\ (detection.senderStats.present => detection.senderStats.reputationScore # 0))
            => /\ detection.results[id].signals.senderReputation = SuppliedReputation
               /\ detection.results[id].signals.frequencyScore = SuppliedFrequency

\* a list's email with no descriptor, label or header, classified with the
\* supplied statistics {0, 0}, is reported with reputation 0.5 and confidence
\* 0.125
C33_ZeroReputationDefaulted ==
    /\ detection.results # <<>>
    /\ detection.senderStats = Stats(0, 0)
    /\ Scored(Classified(1))
    /\ WeightedSum(Classified(1), 0, 0) = 0
    /\ detection.results[1].signals.senderReputation = 50
    /\ detection.results[1].confidence = 1250

\* ------------------------------------------------- the undo table's claims
\* the step is the return of the i-th undoAction call in flight
UndoReturns(i) ==
    /\ i \in DOMAIN pendingUndo
    /\ pendingUndo' = Remove(pendingUndo, i)
    /\ lastResult'.op = "undoAction"

\* C34: when the reversal of an undoAction called within the window fails
\* (untrashEmail or deleteFilter returns false), undoAction returns success =
\* false for its token and leaves the undo table as it is; a record leaves the
\* table only when an undoAction on its token returns success or when its
\* window has passed.
C34_RecordDeletedOnlyOnSuccess ==
    [][/\ \A i \in 1 .. MaxCalls :
            (UndoReturns(i) /\ ~lastResult'.success) =>
                /\ lastResult'.token = pendingUndo[i].token
                /\ undoStore' = undoStore
                /\ reversed' = reversed
       /\ \A token \in Tokens :
            (undoStore[token] # NoRecord /\ undoStore'[token] = NoRecord) =>
                \/ windowPassed(undoStore[token], now)
                \/ /\ lastResult'.op = "undoAction"
                   /\ lastResult'.token = token
                   /\ lastResult'.success]_vars

\* the deletion of a block's filter failed, the record is in the table with
\* the filter's id, and a second undoAction on the token has called
\* deleteFilter again
C34_Witness ==
    /\ lastResult = UndoResult(1, FALSE, "Failed to delete filter")
    /\ undoStore[1].action = "block"
    /\ undoStore[1].filterId # 0
    /\ Len(pendingUndo) = 1
    /\ pendingUndo[1].token = 1
    /\ pendingUndo[1].providerCall = "deleteFilter"

\* the same for a delete: untrashEmail failed, the record is in the table, the
\* email is in the trash, and a second undoAction has called untrashEmail again
C34_UntrashRetried ==
    /\ lastResult = UndoResult(1, FALSE, "Failed to untrash email")
    /\ undoStore[1].action = "delete"
    /\ undoStore[1].providerId \in trashed
    /\ Len(pendingUndo) = 1
    /\ pendingUndo[1].token = 1
    /\ pendingUndo[1].providerCall = "untrash"

\* ------------------------------------------ the buffer's refill and frame claims
\* C35: the refill callback is invoked from consumeItem and consumeBatch only:
\* a buffer is constructed with no invocation outstanding and the in-flight
\* flag clear, and addItem and nukeDomain invoke nothing and leave the flag as
\* it is, also when the window they leave has at most TriggerThreshold entries
\* or none.
C35_OnlyConsumeInvokesRefill ==
    /\ outstanding = 0 /\ ~isFetching
    /\ [][/\ \A email \in AddArgs : \A index \in AddIndexes :
              addItem(email, index) =>
                  outstanding' = outstanding /\ isFetching' = isFetching
          /\ \A domain \in Domains :
              nukeDomain(domain) =>
                  outstanding' = outstanding /\ isFetching' = isFetching
          /\ outstanding' > outstanding =>
              \E ids \in SUBSET Ids :
                  /\ fullQueue' = FilterOut(fullQueue, ids)
                  /\ activeWindow' = FilterWindow(activeWindow, ids)
                  /\ Len(activeWindow') <= TriggerThreshold]_vars

\* an email was added to the buffer constructed empty: the window has one
\* entry, which is below the threshold, no call of consume was made and no
\* invocation is outstanding
C35_Witness ==
    /\ fullQueue = <<1>>
    /\ activeWindow = <<Singleton(1)>>
    /\ Len(activeWindow) <= TriggerThreshold
    /\ call = "none"
    /\ outstanding = 0
    /\ ~isFetching

\* nukeDomain left one entry of the queue [1, 6, 7] with nothing invoked
C35_NukedToLowWindow ==
    /\ fullQueue = <<7>>
    /\ activeWindow = <<Singleton(7)>>
    /\ call = "none"
    /\ outstanding = 0
    /\ ~isFetching

\* every entry of the slice is shown by the window, as itself or in its group
ShownIn(slice, w) ==
    \A i \in DOMAIN slice : \E k \in DOMAIN w : Covers(w[k], slice[i])

\* C36: consumeItem(id) removes from the queue the entries whose id is id and
\* no other, and keeps the rest in their order: the other members of a
\* collapsed group whose representative is consumed stay in the queue, and
\* an id that is not queued leaves the queue as it is. consumeBatch does the
\* same for its ids. When the call completes, at once or after the refill it
\* awaited, the window is recomputed and shows every entry of the first
\* WindowSize of the queue.
C36_ConsumeRemovesThatIdOnly ==
    [][/\ \A id \in Ids :
            consumeItem(id) =>
                /\ fullQueue' = SelectSeq(fullQueue, LAMBDA e : e # id)
                /\ id \notin Range(fullQueue) => fullQueue' = fullQueue
                /\ \A e \in Range(fullQueue) \ {id} :
                       /\ e \in Range(fullQueue')
                       /\ Cardinality({i \in DOMAIN fullQueue' : fullQueue'[i] = e})
                            = Cardinality({i \in DOMAIN fullQueue : fullQueue[i] = e})
                /\ call' = call => ShownIn(Take(fullQueue', WindowSize), activeWindow')
       /\ \A ids \in BatchArgs :
            consumeBatch(ids) =>
                fullQueue' = SelectSeq(fullQueue, LAMBDA e : e \notin ids)
       /\ (call = "resuming" /\ call' = "resolved") =>
            /\ fullQueue' = fullQueue
            /\ ShownIn(Take(fullQueue, WindowSize), activeWindow')]_vars

\* the representative of the group collapsed from [1, 2, 3, 4, 5, 6] was
\* consumed and the refill it issued brought nothing: the four other members
\* are in the queue, and in the recomputed window as singletons
C36_Witness ==
    /\ call = "resolved"
    /\ added = <<>>
    /\ fullQueue = <<2, 3, 4, 5, 6>>
    /\ activeWindow = <<Singleton(2), Singleton(3), Singleton(4), Singleton(5),
                        Singleton(6)>>

\* while that call is suspended on its refill the cached window is the old
\* one without the consumed representative: empty, over a queue of five
C36_GroupHiddenWhileSuspended ==
    /\ call = "suspended"
    /\ fullQueue = <<2, 3, 4, 5, 6>>
    /\ activeWindow = <<>>

\* the last call that returned was a successful executeAction that stored a
\* record under the token it returned
ReturnedWithRecord ==
    /\ lastResult.op = "executeAction"
    /\ lastResult.success
    /\ lastResult.undoToken \in Tokens
    /\ undoStore[lastResult.undoToken] # NoRecord

\* C38: the undoExpiry a successful executeAction returns with a stored record
\* is not later than the record's timestamp plus the undo window, and an
\* undoAction on the returned token at any time up to and including undoExpiry
\* is not rejected with "Undo window has expired".
C38_ReportedDeadlineHonoured ==
    /\ [](ReturnedWithRecord =>
            lastResult.undoExpiry
                <= undoStore[lastResult.undoToken].timestamp + undoWindowMs)
    /\ [][\A token \in Tokens :
            (/\ ReturnedWithRecord
             /\ lastResult.undoToken = token
             /\ now <= lastResult.undoExpiry
             /\ undoAction(token))
                => lastResult'.error # "Undo window has expired"]_vars

\* a delete entered at 0 returned at 15000 with undoExpiry 30000, and the
\* clock stands at 30000: the deadline is reached, the record is 15000 old and
\* no undoAction is in flight
C38_Witness ==
    /\ ReturnedWithRecord
    /\ lastResult.undoExpiry = undoWindowMs
    /\ undoStore[lastResult.undoToken].timestamp = 15000
    /\ now = lastResult.undoExpiry
    /\ pendingUndo = <<>>

\* the same with the delete returned at once: at the deadline the record is
\* as old as the window is long
C38_DeadlineIsWindowEnd ==
    /\ ReturnedWithRecord
    /\ undoStore[lastResult.undoToken].timestamp = 0
    /\ now = lastResult.undoExpiry
    /\ now - undoStore[lastResult.undoToken].timestamp = undoWindowMs
    /\ pendingUndo = <<>>

\* an undoAction(token) called now passes its not-found check and its window
\* check: it returns neither of the two errors
UndoWouldPass(token) ==
    \A result \in {UndoResult(token, FALSE, "Undo token not found or expired"),
                   UndoResult(token, FALSE, "Undo window has expired")} :
        ~(ENABLED (undoAction(token) /\ lastResult' = result))

\* C39 as stated: at every instant and for every token, getRemainingUndoTime
\* returns a remaining time (not null) exactly when an undoAction on the token
\* at that instant would pass its not-found and window-expired checks.
\* Violated at the instant at which now - timestamp equals the undo window:
\* getRemainingUndoTime returns null and undoAction passes.
C39_RemainingTimeAgreesWithUndo ==
    \A token \in Tokens :
        (getRemainingUndoTime(token) # -1) <=> UndoWouldPass(token)

\* the two agree at every instant but that one
C39_AgreesOffTheDeadline ==
    \A token \in Tokens :
        (undoStore[token] # NoRecord
            => now - undoStore[token].timestamp # undoWindowMs)
        => ((getRemainingUndoTime(token) # -1)
                <=> (undoStore[token] # NoRecord
                         /\ now - undoStore[token].timestamp <= undoWindowMs))

\* a record exactly as old as the window is long: no time is reported as
\* remaining, and an undoAction on the token would call untrashEmail
C39_NullWhileUndoPasses ==
    /\ undoStore[1] # NoRecord
    /\ now - undoStore[1].timestamp = undoWindowMs
    /\ getRemainingUndoTime(1) = -1
    /\ UndoWouldPass(1)
    /\ pendingUndo = <<>>

\* C37 as stated: whatever the interleaving of undoAction calls on one token,
\* the reversal (untrashEmail or deleteFilter) is called at most once for it,
\* and at most one of the calls returns success. Violated: the record is
\* deleted after the provider's answer only, so a second call entered before
\* it finds the record and calls the provider too, and both return success.
C37_UndoAtMostOncePerToken ==
    /\ [](\A i, j \in DOMAIN pendingUndo :
            pendingUndo[i].token = pendingUndo[j].token => i = j)
    /\ [][\A i \in 1 .. MaxCalls :
            (UndoReturns(i) /\ lastResult'.success) =>
                pendingUndo[i].token \notin reversed]_vars

\* the second half of C37 alone is violated as well: an undoAction returns
\* success for a token another call has returned success for
C37_AtMostOneSuccess ==
    [][\A i \in 1 .. MaxCalls :
          (UndoReturns(i) /\ lastResult'.success /\ lastResult'.token = pendingUndo[i].token)
              => pendingUndo[i].token \notin reversed]_vars

\* two undoAction calls on token 1 are awaiting untrashEmail for email 1
C37_TwoReversalsInFlight ==
    /\ Len(pendingUndo) = 2
    /\ pendingUndo[1] = pendingUndo[2]
    /\ pendingUndo[1].token = 1
    /\ pendingUndo[1].providerCall = "untrash"
    /\ undoStore[1].action = "delete"

\* the first of them returned success and deleted the record; the second is
\* still in flight and will return success as well
C37_SecondSuccessPending ==
    /\ 1 \in reversed
    /\ undoStore[1] = NoRecord
    /\ lastResult = UndoResult(1, TRUE, "none")
    /\ Len(pendingUndo) = 1
    /\ pendingUndo[1].token = 1

\* with one call at a time on a token, each success is the token's first
C37_SequentialUndoAtMostOnce ==
    [][\A i \in 1 .. MaxCalls :
          (/\ UndoReturns(i)
           /\ lastResult'.success
           /\ \A j \in DOMAIN pendingUndo :
                 pendingUndo[j].token = pendingUndo[i].token => j = i
           /\ undoStore[pendingUndo[i].token] # NoRecord)
              => pendingUndo[i].token \notin reversed]_vars

\* C40: provided every invocation of the refill callback settles, the consume
\* call that awaits it completes (it returns, or it rejects with the
\* callback's error), and the in-flight flag returns to false: the buffer does
\* not stay in the Refilling state.
C40_RefillingEnds ==
    (call = "suspended" \/ isFetching \/ outstanding > 0)
        ~> (call \in {"resolved", "rejected"} /\ ~isFetching /\ outstanding = 0)

\* a consume call whose refill was rejected has completed with the flag
\* cleared, over a window at the threshold or below: the next consumption can
\* issue a refill
C40_Witness ==
    /\ call = "rejected"
    /\ settled = "rejected"
    /\ ~isFetching
    /\ outstanding = 0
    /\ fullQueue # <<>>
    /\ Len(activeWindow) <= TriggerThreshold

\* whenever the flag is clear and a call can be made, a consumption that
\* leaves the window at the threshold or below invokes the callback
C40_RefillCanBeIssuedAgain ==
    (~isFetching /\ Callable) =>
        \A id \in Ids :
            Len(FilterWindow(activeWindow, {id})) <= TriggerThreshold =>
                ENABLED (consumeItem(id) /\ outstanding' = outstanding + 1
                            /\ isFetching')

=============================================================================
